---- MODULE Spec2Model ----
(***************************************************************************)
(* A model of the annotation validator: the text matcher of cli.py         *)
(* (TextValidator), its caller validate_supporting_text with the content   *)
(* fetcher and its cache, the batch driver validate_annotation_file, and   *)
(* the tool handlers of the two MCP servers.                               *)
(*                                                                         *)
(* Text is a sequence of one-character strings.  A similarity score or a   *)
(* threshold is a rational <<n, d>> with d > 0; Python computes n / d in   *)
(* binary floating point, and for the token sets of this model (fewer than *)
(* 40 words) the float comparison and the rounding of "{:.2f}" agree with  *)
(* the exact rational ones.                                                *)
(***************************************************************************)
EXTENDS Integers, Sequences, FiniteSets, TLC

\* ------------------------------------------------------------------ text

\* The characters str.strip() removes and the regular expression \s matches.
Whitespace == {" ", "\t", "\n", "\r", "\f"}

\* The characters of the sentence separator [.!?]+ .
Terminators == {".", "!", "?"}

\* The concatenation of the sequences ps[lo..hi], by halves.
RECURSIVE ConcatRange(_, _, _)
ConcatRange(ps, lo, hi) ==
  IF lo > hi THEN <<>>
  ELSE IF lo = hi THEN ps[lo]
  ELSE LET mid == (lo + hi) \div 2
       IN  ConcatRange(ps, lo, mid) \o ConcatRange(ps, mid + 1, hi)

\* "".join(ps)
Concat(ps) == ConcatRange(ps, 1, Len(ps))

\* str.lower() on the letters of the model's alphabet, A to Z.
UpperToLower ==
  [c \in {"A", "B", "C", "D", "E", "F", "G", "H", "I", "J", "K", "L", "M", "N",
          "O", "P", "Q", "R", "S", "T", "U", "V", "W", "X", "Y", "Z"} |->
     CASE c = "A" -> "a" [] c = "B" -> "b" [] c = "C" -> "c" [] c = "D" -> "d"
       [] c = "E" -> "e" [] c = "F" -> "f" [] c = "G" -> "g" [] c = "H" -> "h"
       [] c = "I" -> "i" [] c = "J" -> "j" [] c = "K" -> "k" [] c = "L" -> "l"
       [] c = "M" -> "m" [] c = "N" -> "n" [] c = "O" -> "o" [] c = "P" -> "p"
       [] c = "Q" -> "q" [] c = "R" -> "r" [] c = "S" -> "s" [] c = "T" -> "t"
       [] c = "U" -> "u" [] c = "V" -> "v" [] c = "W" -> "w" [] c = "X" -> "x"
       [] c = "Y" -> "y" [] c = "Z" -> "z"]

LowerChar(c) == IF c \in DOMAIN UpperToLower THEN UpperToLower[c] ELSE c

Lower(s) == [i \in 1..Len(s) |-> LowerChar(s[i])]

\* str.strip(): the text without its leading and trailing whitespace.
Strip(s) ==
  LET keep == {i \in 1..Len(s) : s[i] \notin Whitespace}
  IN  IF keep = {} THEN <<>>
      ELSE LET lo == CHOOSE i \in keep : \A j \in keep : i <= j
               hi == CHOOSE i \in keep : \A j \in keep : j <= i
           IN  SubSeq(s, lo, hi)

\* re.sub(r'\s+', ' ', s): every maximal whitespace run becomes one space.
CollapseWhitespace(s) ==
  Concat([i \in 1..Len(s) |->
            IF s[i] \notin Whitespace THEN <<s[i]>>
            ELSE IF i = 1 \/ s[i-1] \notin Whitespace THEN <<" ">>
            ELSE <<>>])

\* pat occurs in s at the 0-based offset i.
OccursAt(pat, s, i) ==
  /\ i + Len(pat) <= Len(s)
  /\ \A k \in 1..Len(pat) : s[i + k] = pat[k]

\* Python's  pat in s .
IsSubstring(pat, s) == \E i \in 0..(Len(s) - Len(pat)) : OccursAt(pat, s, i)

\* Python's  s.find(pat) : the first offset, -1 when there is none.
Find(pat, s) ==
  IF IsSubstring(pat, s)
  THEN CHOOSE i \in 0..(Len(s) - Len(pat)) :
         /\ OccursAt(pat, s, i)
         /\ \A j \in 0..(i - 1) : ~OccursAt(pat, s, j)
  ELSE -1

\* Python's  s.replace(pat, rep)  for a non-empty pat: leftmost occurrences,
\* not overlapping.
RECURSIVE ReplaceFrom(_, _, _, _)
ReplaceFrom(s, pat, rep, i) ==
  LET occ == {j \in i..(Len(s) - Len(pat)) : OccursAt(pat, s, j)}
  IN  IF occ = {} THEN SubSeq(s, i + 1, Len(s))
      ELSE LET j == CHOOSE x \in occ : \A y \in occ : x <= y
           IN  SubSeq(s, i + 1, j) \o rep \o ReplaceFrom(s, pat, rep, j + Len(pat))

Replace(s, pat, rep) == ReplaceFrom(s, pat, rep, 0)

\* The literals of the two replace lines of normalize_text as Python reads
\* them.  Line 332 replaces '"' by '"' twice.  Line 333 is ONE call: the three
\* quotes open a triple-quoted string that ends at the next three quotes, so
\* its first argument is the 15 characters  , "'").replace(  and its second "'".
DoubleQuote == <<"\"">>
SingleQuote == <<"'">>
TripleQuoted ==
  <<",", " ", "\"", "'", "\"", ")", ".", "r", "e", "p", "l", "a", "c", "e", "(">>

\* normalize_text without the strip of line 331.
NormalizeUnstripped(text) ==
  Lower(Replace(CollapseWhitespace(text), TripleQuoted, SingleQuote))

\* TextValidator.normalize_text
normalize_text(text) ==
  LET t1 == CollapseWhitespace(Strip(text))
      t2 == Replace(Replace(t1, DoubleQuote, DoubleQuote), DoubleQuote, DoubleQuote)
      t3 == Replace(t2, TripleQuoted, SingleQuote)
  IN  Lower(t3)

\* str.split(): the maximal runs of non-whitespace characters, in order.
SplitWords(s) ==
  LET starts == {i \in 1..Len(s) :
                   s[i] \notin Whitespace /\ (i = 1 \/ s[i-1] \in Whitespace)}
      ends == {j \in 1..Len(s) :
                 s[j] \notin Whitespace /\ (j = Len(s) \/ s[j+1] \in Whitespace)}
      EndOf(i) == CHOOSE j \in ends : j >= i /\ \A k \in ends : k >= i => j <= k
  IN  Concat([i \in 1..Len(s) |->
                IF i \in starts THEN <<SubSeq(s, i, EndOf(i))>> ELSE <<>>])

\* set(s.split())
WordSet(s) == LET w == SplitWords(s) IN {w[i] : i \in 1..Len(w)}

\* re.split(r'[.!?]+', s): the pieces between maximal runs of terminators,
\* with the empty piece before a leading and after a trailing run.
SplitSentences(s) ==
  LET isT(i) == s[i] \in Terminators
      \* a piece starts at 1 and after the last terminator of every run
      starts == {1} \cup {i \in 2..(Len(s) + 1) :
                            isT(i - 1) /\ (i = Len(s) + 1 \/ ~isT(i))}
      ends == {j \in 1..Len(s) : ~isT(j) /\ (j = Len(s) \/ isT(j + 1))}
      EndOf(i) == IF i > Len(s) \/ isT(i) THEN i - 1
                  ELSE CHOOSE j \in ends : j >= i /\ \A k \in ends : k >= i => j <= k
  IN  Concat([i \in 1..(Len(s) + 1) |->
                IF i \in starts THEN <<SubSeq(s, i, EndOf(i))>> ELSE <<>>])

\* The characters of this model's texts that \w does not match.
NonWordChars ==
  Whitespace \cup Terminators \cup {":", "/", ",", "\"", "'", "(", ")", "-"}

\* re.findall(r'\b\w+\b', s): the maximal runs of word characters, in order.
FindWords(s) ==
  LET starts == {i \in 1..Len(s) :
                   s[i] \notin NonWordChars /\ (i = 1 \/ s[i-1] \in NonWordChars)}
      ends == {j \in 1..Len(s) :
                 s[j] \notin NonWordChars /\ (j = Len(s) \/ s[j+1] \in NonWordChars)}
      EndOf(i) == CHOOSE j \in ends : j >= i /\ \A k \in ends : k >= i => j <= k
  IN  Concat([i \in 1..Len(s) |->
                IF i \in starts THEN <<SubSeq(s, i, EndOf(i))>> ELSE <<>>])

\* ---------------------------------------------------------------- scores

\* Rationals <<n, d>>, d > 0.
RatGE(a, b) == a[1] * b[2] >= b[1] * a[2]
RatGT(a, b) == a[1] * b[2] > b[1] * a[2]
RatEQ(a, b) == a[1] * b[2] = b[1] * a[2]

Zero == <<0, 1>>
One == <<1, 1>>

\* The floor of the suggestion list, 0.5 (cli.py line 380).
SuggestionFloor == <<1, 2>>

\* The default of find_text_in_content's threshold parameter, 0.8.
DefaultThreshold == <<4, 5>>

\* Sentences shorter than this are skipped.
MinSentenceLen == 10

\* The characters of context kept on each side of an exact match.
ContextRadius == 100

\* The characters of a sentence a suggestion shows.
SuggestionLen == 100

\* The suggestions a not-found result keeps.
MaxSuggestions == 3

Min(a, b) == IF a <= b THEN a ELSE b
Max(a, b) == IF a >= b THEN a ELSE b

\* The share of the first text's words that the second text holds.
OverlapOfFirst(text1, text2) ==
  LET words1 == WordSet(normalize_text(text1))
      words2 == WordSet(normalize_text(text2))
  IN  IF words1 = {} \/ words2 = {} THEN Zero
      ELSE <<Cardinality(words1 \cap words2), Cardinality(words1)>>

\* The index with every occurrence of a word counted in the union.
MultisetSimilarity(text1, text2) ==
  LET list1 == SplitWords(normalize_text(text1))
      list2 == SplitWords(normalize_text(text2))
      common == Cardinality({list1[i] : i \in 1..Len(list1)}
                              \cap {list2[i] : i \in 1..Len(list2)})
  IN  IF list1 = <<>> \/ list2 = <<>> THEN Zero
      ELSE <<common, Len(list1) + Len(list2) - common>>

\* TextValidator.calculate_similarity: the Jaccard index of the two sets of
\* words of the normalized texts, 0.0 when either set is empty.
calculate_similarity(text1, text2) ==
  LET words1 == WordSet(normalize_text(text1))
      words2 == WordSet(normalize_text(text2))
  IN  IF words1 = {} \/ words2 = {} THEN Zero
      ELSE <<Cardinality(words1 \cap words2), Cardinality(words1 \cup words2)>>

\* The hundredths "{:.2f}" prints for n / d: round to nearest; a tie is a
\* value k/8, which a float holds exactly, and is rounded half to even.
RoundHundredths(r) ==
  LET q == (100 * r[1]) \div r[2]
      m == (100 * r[1]) % r[2]
  IN  IF 2 * m > r[2] THEN q + 1
      ELSE IF 2 * m < r[2] THEN q
      ELSE IF q % 2 = 0 THEN q ELSE q + 1

Digits == <<"0", "1", "2", "3", "4", "5", "6", "7", "8", "9">>

\* f"{similarity:.2f}" for a similarity in [0, 10).
FormatFixed2(r) ==
  LET h == RoundHundredths(r)
  IN  <<Digits[(h \div 100) + 1], ".", Digits[((h \div 10) % 10) + 1],
        Digits[(h % 10) + 1]>>

DigitValue(c) == CHOOSE v \in 0..9 : Digits[v + 1] = c

\* float() of a text d.dd, in hundredths.
ParseFixed2(t) == 100 * DigitValue(t[1]) + 10 * DigitValue(t[3]) + DigitValue(t[4])

SimilarityWord == <<"S", "i", "m", "i", "l", "a", "r", "i", "t", "y">>
Ellipsis == <<".", ".", ".">>

\* f"Similarity {similarity:.2f}: {sentence[:100]}..."
FormatSuggestion(similarity, sentence) ==
  SimilarityWord \o <<" ">> \o FormatFixed2(similarity) \o <<":", " ">>
    \o SubSeq(sentence, 1, Min(SuggestionLen, Len(sentence))) \o Ellipsis

\* The sort key of line 387: float(x.split()[1][:-1]), in hundredths.
SuggestionKey(x) ==
  LET w == SplitWords(x)[2]
  IN  ParseFixed2(SubSeq(w, 1, Len(w) - 1))

\* sorted(xs, key=..., reverse=True): descending by key, and stable, so equal
\* keys keep their order.
SortedDescending(xs) ==
  LET key == [i \in 1..Len(xs) |-> SuggestionKey(xs[i])]
      pos(i) == 1 + Cardinality({j \in 1..Len(xs) :
                     key[j] > key[i] \/ (key[j] = key[i] /\ j < i)})
  IN  [p \in 1..Len(xs) |-> xs[CHOOSE i \in 1..Len(xs) : pos(i) = p]]

\* The candidate sentences of the fuzzy path, in document order: the pieces
\* of the original content, stripped, at least MinSentenceLen long.
CandidateSentences(content) ==
  LET content_sentences == SplitSentences(content)
      stripped == [i \in 1..Len(content_sentences) |-> Strip(content_sentences[i])]
  IN  SelectSeq(stripped, LAMBDA x : Len(x) >= MinSentenceLen)

ReachesThresholdStrictly(similarity, threshold) == RatGT(similarity, threshold)

\* The test of line 383:  similarity >= threshold .
ReachesThreshold(similarity, threshold) == RatGE(similarity, threshold)

FoundSuggestionsTopThree(suggestions) ==
  SubSeq(SortedDescending(suggestions), 1, Min(MaxSuggestions, Len(suggestions)))

\* The suggestions of the return of line 384: the list as collected so far.
FoundSuggestions(suggestions) == suggestions

TopSuggestionsUnsorted(suggestions) ==
  SubSeq(suggestions, 1, Min(MaxSuggestions, Len(suggestions)))

\* Line 387: the first MaxSuggestions of the list sorted by descending score.
TopSuggestions(suggestions) ==
  SubSeq(SortedDescending(suggestions), 1, Min(MaxSuggestions, Len(suggestions)))

\* The loop of lines 369-384 over the candidates from index i on.  The field
\* scored counts the sentences whose similarity was computed.
RECURSIVE ScanSentences(_, _, _, _, _, _, _)
ScanSentences(cands, i, normalized_supporting, threshold, best_similarity, best_sentence, suggestions) ==
  IF i > Len(cands)
  THEN [found |-> FALSE, score |-> best_similarity, context |-> best_sentence,
        suggestions |-> TopSuggestions(suggestions), scored |-> Len(cands)]
  ELSE
    LET sentence == cands[i]
        similarity == calculate_similarity(normalized_supporting, sentence)
        better == RatGT(similarity, best_similarity)
        best2 == IF better THEN similarity ELSE best_similarity
        sent2 == IF better THEN sentence ELSE best_sentence
        sugg2 == IF RatGE(similarity, SuggestionFloor)
                 THEN Append(suggestions, FormatSuggestion(similarity, sentence))
                 ELSE suggestions
    IN  IF ReachesThreshold(similarity, threshold)
        THEN [found |-> TRUE, score |-> similarity, context |-> sentence,
              suggestions |-> FoundSuggestions(sugg2), scored |-> i]
        ELSE ScanSentences(cands, i + 1, normalized_supporting, threshold,
                           best2, sent2, sugg2)

ExactMatchUnnormalized(supporting_text, content) ==
  IsSubstring(supporting_text, content)

\* The exact-match test of line 356.
ExactMatch(supporting_text, content) ==
  IsSubstring(normalize_text(supporting_text), normalize_text(content))

\* The context window of lines 357-360: the offset is found in the normalized
\* content and the slice is taken from the original content.
ExactContext(supporting_text, content) ==
  LET match_pos == Find(normalize_text(supporting_text), normalize_text(content))
      start == Max(0, match_pos - ContextRadius)
      end == Min(Len(content), match_pos + Len(supporting_text) + ContextRadius)
  IN  Strip(SubSeq(content, start + 1, end))

\* TextValidator.find_text_in_content
find_text_in_content(supporting_text, content, threshold) ==
  IF ExactMatch(supporting_text, content)
  THEN [found |-> TRUE, score |-> One,
        context |-> ExactContext(supporting_text, content),
        suggestions |-> <<>>, scored |-> 0]
  ELSE ScanSentences(CandidateSentences(content), 1,
                     normalize_text(supporting_text), threshold,
                     Zero, <<>>, <<>>)

\* --------------------------------------------------------------- inputs

\* The quotation of four words.
\*   "aa bb cc dd"
QuoteFour ==
  <<"a", "a", " ", "b", "b", " ", "c", "c", " ", "d", "d">>

\* A quotation that normalization changes: capitals, a tab, outer spaces.
\*   "  Aa bb\tcc ee "
QuoteSpaced ==
  <<" ", " ", "A", "a", " ", "b", "b", "\t", "c", "c", " ", "e", "e", " ">>

\* Jaccard 4/5 with QuoteFour: exactly the default threshold.
\*   "aa bb ee cc dd. "
SentBoundary ==
  <<"a", "a", " ", "b", "b", " ", "e", "e", " ", "c", "c", " ", "d", "d",
    ".", " ">>

\* Jaccard 3/5 with QuoteFour; holds QuoteSpaced once both are normalized.
\*   "aa bb cc ee! "
SentSixty ==
  <<"a", "a", " ", "b", "b", " ", "c", "c", " ", "e", "e", "!", " ">>

\* Jaccard 3/6 with QuoteFour: exactly the suggestion floor.
\*   "AA  bb cc\nee ff?? "
SentHalf ==
  <<"A", "A", " ", " ", "b", "b", " ", "c", "c", "\n", "e", "e", " ", "f",
    "f", "?", "?", " ">>

\* Jaccard 3/4 with QuoteFour, but shorter than MinSentenceLen.
\*   "dd cc bb. "
SentShort ==
  <<"d", "d", " ", "c", "c", " ", "b", "b", ".", " ">>

\* Jaccard 1/7 with QuoteFour: below the suggestion floor.
\*   "aa ee ff gg. "
SentLow ==
  <<"a", "a", " ", "e", "e", " ", "f", "f", " ", "g", "g", ".", " ">>

\* Jaccard 1 with QuoteFour without containing it.
\*   "dd cc bb aa. "
SentPermuted ==
  <<"d", "d", " ", "c", "c", " ", "b", "b", " ", "a", "a", ".", " ">>

\* The length of the long word of SentLong.
LongWordLen == 95

\* Jaccard 3/5 with QuoteFour; longer than SuggestionLen.
\*   "bb aa dd xxx...x. "
SentLong ==
  <<"b", "b", " ", "a", "a", " ", "d", "d", " ">>
    \o [i \in 1..LongWordLen |-> "x"] \o <<".", " ">>

\* The copies of the text that line 333 replaces in DocLiterals.
LiteralCopies == 8

\* A document without leading whitespace and without a whitespace run longer
\* than one character that holds QuoteFour after copies of the text that
\* line 333 replaces by one character.
\*   ', "'").replace(, "'").replace( ... , "'").replace( aa bb cc dd.'
DocLiterals ==
  Concat([i \in 1..LiteralCopies |-> TripleQuoted])
    \o <<" ">> \o QuoteFour \o <<".">>

\* The sentences a document of the matcher's specification is made of.
SentencePool == {SentBoundary, SentSixty, SentHalf, SentShort, SentLow}

\* Every document of at most this many sentences of the pool is an input.
MaxSentences == 3

\* Besides those: documents with four sentences that score >= 0.5 before a
\* last one, documents with the long and the permuted sentence, and one whose
\* exact match lies more than ContextRadius into the text.
Documents ==
  {Concat(ps) : ps \in UNION {[1..n -> SentencePool] : n \in 0..MaxSentences}}
    \cup {Concat(<<SentHalf, SentSixty, SentHalf, SentSixty, p>>) : p \in SentencePool}
    \cup {Concat(<<p, q>>) : p \in SentencePool \cup {SentPermuted},
                             q \in {SentLong, SentPermuted}}
    \cup {SentLong \o SentLong \o QuoteFour}
    \cup {DocLiterals}

\* A quotation that is not empty and holds whitespace only.
\*   " \t"
QuoteBlank == <<" ", "\t">>

Quotations == {QuoteFour, QuoteSpaced, QuoteBlank}

\* 0, 0.6, the default 0.8, and 1.2.
Thresholds == {<<0, 1>>, <<3, 5>>, DefaultThreshold, <<6, 5>>}

\* ---------------------------------------------------------------- state

VARIABLES
  quotation,   \* find_text_in_content's argument supporting_text
  document,    \* its argument content
  threshold,   \* its argument threshold
  match        \* what it returned, NoMatch before the call

\* One run of validate_annotation_file.
VARIABLES
  data,                  \* the loaded annotation file
  similarity_threshold,  \* the argument similarity_threshold (--threshold)
  cache,                 \* ContentFetcher.cache, a set of <<key, content>>
  results,               \* the list results
  identifier_results,    \* the list identifier_results
  todo,                  \* the iterations of the loops of lines 445-509 to come
  pc,                    \* "loops" in those loops, Returned after line 511
  calls                  \* per result: what validate_supporting_text called

\* One call of a tool handler of an MCP server.
VARIABLES
  tool,         \* the handler that is running, "none" before the call
  arguments,    \* its argument arguments
  locals,       \* its local variables and its position in its loops
  paper_cache,  \* simple_aurelian_mcp.paper_cache, a set of <<key, text>>
  response      \* what the call returned or raised, NoResponse before

\* Calls of the pure text functions of TextValidator on their own.
VARIABLES
  arg_text1,          \* the argument text of normalize_text, text1 of calculate_similarity
  arg_text2,          \* the argument text2 of calculate_similarity
  normalized_text,    \* normalize_text(arg_text1), NotCalled before the call
  renormalized_text,  \* normalize_text of that result, NotCalled before the call
  similarities        \* what calculate_similarity returned, NotScored before

\* One TextValidator: its construction and one relevance check.
VARIABLES
  disease,           \* the arguments disease_name and disease_id of __init__
  monarch_reply,     \* what the Monarch API answers to the synonym request
  text_validator,    \* the TextValidator object, NoValidator before __init__
  publication,       \* the argument content of check_disease_relevance
  relevance_result   \* what check_disease_relevance returned, NotChecked before

\* One IdentifierValidator and the calls of validate_identifier on it.
VARIABLES
  identifier_cache,  \* IdentifierValidator.cache, a set of <<doi, entry>>
  identifier_log     \* per call: arguments, lookup reply, result, cache before

\* Coroutines that share one IdentifierValidator and one ContentFetcher.
VARIABLES
  tasks,             \* per coroutine: operation, key, position, result
  validator_cache,   \* IdentifierValidator.cache, a set of <<doi, entry>>
  fetcher_cache      \* ContentFetcher.cache, a set of <<reference, content>>

\* One PMIDFetcher, its cache directory and the calls of fetch_abstract.
VARIABLES
  abstract_cache,    \* PMIDFetcher.cache, a set of <<pmid, data>>
  cache_dir,         \* the files of cache_dir, a set of <<clean pmid, file>>
  fetch_log          \* per call: the pmid, the steps taken, what it returned

\* The result of AnnotationValidator.find_text_in_content (validator.py) for
\* quotation, document and threshold.
VARIABLES
  validator_match

matchVars == <<quotation, document, threshold, match>>

copyVars == <<validator_match>>

fetchVars == <<abstract_cache, cache_dir, fetch_log>>

raceVars == <<tasks, validator_cache, fetcher_cache>>

identifierVars == <<identifier_cache, identifier_log>>

relevanceVars ==
  <<disease, monarch_reply, text_validator, publication, relevance_result>>

textVars ==
  <<arg_text1, arg_text2, normalized_text, renormalized_text, similarities>>

mcpVars == <<tool, arguments, locals, paper_cache, response>>

batchVars ==
  <<data, similarity_threshold, cache, results, identifier_results, todo, pc,
    calls>>

vars ==
  <<matchVars, batchVars, mcpVars, textVars, relevanceVars, identifierVars,
    raceVars, fetchVars, copyVars>>

\* An annotation file without sections.
NoData == [sections |-> <<>>]

\* No run of validate_annotation_file.
BatchIdle ==
  /\ data = NoData
  /\ similarity_threshold = DefaultThreshold
  /\ cache = {}
  /\ results = <<>>
  /\ identifier_results = <<>>
  /\ todo = <<>>
  /\ pc = "idle"
  /\ calls = <<>>

\* No annotation_data: a file without sections.
NoAnnotationData == <<>>

NoArguments ==
  [supporting_texts |-> <<>>, publications |-> <<>>,
   annotation_data |-> NoAnnotationData]

\* The local variables of a handler before its loop starts.
NoLocals ==
  [results |-> <<>>, pub_results |-> <<>>, all_validation_results |-> <<>>,
   paper_ids |-> {}, pub |-> 1, annotation |-> 0, entry |-> 0,
   fetches |-> <<>>]

NoResponse == [kind |-> "none"]

\* No call of a tool handler.
McpIdle ==
  /\ tool = "none"
  /\ arguments = NoArguments
  /\ locals = NoLocals
  /\ paper_cache = {}
  /\ response = NoResponse

\* No result yet where a text is expected.
NotCalled == <<"not called">>

NotScored == [forward |-> <<0, 0>>, backward |-> <<0, 0>>, self |-> <<0, 0>>]

\* No call of the text functions on their own.
TextIdle ==
  /\ arg_text1 = <<>>
  /\ arg_text2 = <<>>
  /\ normalized_text = NotCalled
  /\ renormalized_text = NotCalled
  /\ similarities = NotScored

NoMatch == [found |-> FALSE, score |-> <<0, 0>>, context |-> <<>>,
            suggestions |-> <<>>, scored |-> 0]

NoDisease == [disease_name |-> <<>>, disease_id |-> <<>>]

NoMonarchReply == [kind |-> "none", values |-> {}]

NoValidator == [disease_name |-> <<>>, disease_keywords |-> {}, built |-> FALSE]

NotChecked == <<"None", <<0, 0>>>>

\* No TextValidator on its own.
RelevanceIdle ==
  /\ disease = NoDisease
  /\ monarch_reply = NoMonarchReply
  /\ text_validator = NoValidator
  /\ publication = <<>>
  /\ relevance_result = NotChecked

\* No IdentifierValidator on its own.
IdentifierIdle ==
  /\ identifier_cache = {}
  /\ identifier_log = <<>>

\* No coroutines.
RaceIdle ==
  /\ tasks = <<>>
  /\ validator_cache = {}
  /\ fetcher_cache = {}

\* No PMIDFetcher.
FetcherIdle ==
  /\ abstract_cache = {}
  /\ cache_dir = {}
  /\ fetch_log = <<>>

\* AnnotationValidator.find_text_in_content has not returned.
NotMatched == [called |-> FALSE, found |-> FALSE, score |-> <<0, 1>>]

CopiesIdle == validator_match = NotMatched

\* No call of find_text_in_content on its own.
MatchIdle ==
  /\ quotation = <<>>
  /\ document = <<>>
  /\ threshold = Zero
  /\ match = NoMatch

\* ------------------------------------------------- the matcher, applied

InitMatch ==
  /\ quotation \in Quotations
  /\ document \in Documents
  /\ threshold \in Thresholds
  /\ match = NoMatch
  /\ BatchIdle
  /\ McpIdle
  /\ TextIdle
  /\ RelevanceIdle
  /\ IdentifierIdle
  /\ RaceIdle
  /\ FetcherIdle
  /\ CopiesIdle

\* One call of TextValidator.find_text_in_content.
FindTextInContent ==
  /\ match = NoMatch
  /\ match' = find_text_in_content(quotation, document, threshold)
  /\ UNCHANGED <<quotation, document, threshold>>
  /\ UNCHANGED <<batchVars, mcpVars, textVars, relevanceVars, identifierVars,
                 raceVars, fetchVars, copyVars>>

NextMatch == FindTextInContent

SpecMatch == InitMatch /\ [][NextMatch]_vars

\* ------------------------------------------------ claims on the matcher

\* find_text_in_content has returned.
Called == match # NoMatch

IsDescending(ks) == \A i \in 1..Len(ks) : \A j \in i..Len(ks) : ks[i] >= ks[j]

\* The scores embedded in a list of suggestions, in hundredths.
ScoresOf(xs) == [i \in 1..Len(xs) |-> SuggestionKey(xs[i])]

\* What the claims speak of, for the inputs of the state: whether the
\* normalized document contains the normalized quotation, the candidate
\* sentences in document order, and the similarity of each to the normalized
\* quotation.
Facts ==
  LET nq == normalize_text(quotation)
      cands == CandidateSentences(document)
  IN  [contains |-> IsSubstring(nq, normalize_text(document)),
       cands |-> cands,
       sims |-> [i \in 1..Len(cands) |-> calculate_similarity(nq, cands[i])]]

\* The candidates whose similarity is at least r.
AtLeast(f, r) == {i \in 1..Len(f.cands) : RatGE(f.sims[i], r)}

\* The n-th smallest element of a set of numbers.
Nth(S, n) == CHOOSE x \in S : Cardinality({y \in S : y < x}) = n - 1

First(S) == CHOOSE x \in S : \A y \in S : x <= y

\* The suggestion entries of the candidates in S, in document order.
EntriesOf(f, S) ==
  [n \in 1..Cardinality(S) |->
     FormatSuggestion(f.sims[Nth(S, n)], f.cands[Nth(S, n)])]

CountIn(e, xs) == Cardinality({n \in 1..Len(xs) : xs[n] = e})

\* C1: on every return path the suggestions are at most 3 and in descending
\* order of their embedded similarity score.
C1_SuggestionsAtMostThreeDescending ==
  Called => /\ Len(match.suggestions) <= 3
            /\ IsDescending(ScoresOf(match.suggestions))

\* C2: exact match precedence.  If the normalized quotation is a substring of
\* the normalized document, the result is found with score 1.0 and no
\* suggestion, whatever the threshold, and no sentence was scored.
C2_ExactMatchPrecedence ==
  Called =>
    LET f == Facts
    IN  f.contains =>
          /\ match.found
          /\ match.score = One
          /\ match.suggestions = <<>>
          /\ match.scored = 0

\* C2's case: an exact match under a threshold above 1.0, of a quotation that
\* normalization changes, in a document whose sentences would otherwise feed
\* the suggestion list.
C2_Witness ==
  /\ Called
  /\ RatGT(threshold, One)
  /\ quotation # normalize_text(quotation)
  /\ LET f == Facts IN f.contains /\ AtLeast(f, SuggestionFloor) # {}

\* C3 as stated: found iff exact match or some candidate sentence reaches the
\* threshold (inclusive); a not-found result has score < threshold and a fuzzy
\* found result has score >= threshold.
C3_FoundIffReaching_Original ==
  Called =>
    LET f == Facts
    IN  /\ match.found <=> (f.contains \/ AtLeast(f, threshold) # {})
        /\ ~match.found => ~RatGE(match.score, threshold)
        /\ (match.found /\ ~f.contains) => RatGE(match.score, threshold)

\* C3 amended: the same, except that a not-found result has score < threshold
\* only when the threshold is positive; with a threshold <= 0 a not-found
\* result is one without any candidate sentence, and its score is 0.0.
C3_FoundIffReaching ==
  Called =>
    LET f == Facts
    IN  /\ match.found <=> (f.contains \/ AtLeast(f, threshold) # {})
        /\ (~match.found /\ RatGT(threshold, Zero)) =>
              ~RatGE(match.score, threshold)
        /\ (~match.found /\ ~RatGT(threshold, Zero)) =>
              (Len(f.cands) = 0 /\ match.score = Zero)
        /\ (match.found /\ ~f.contains) => RatGE(match.score, threshold)

\* C3's case: a sentence exactly at the threshold is found, and a sentence of
\* the document was too short to be a candidate.
C3_Witness ==
  /\ Called
  /\ match.found
  /\ RatEQ(match.score, threshold)
  /\ LET f == Facts
     IN  ~f.contains /\ Len(f.cands) < Len(SplitSentences(document)) - 1

\* C4: first-match short-circuit.  When the exact test fails and candidates
\* reach the threshold, the result reports the first of them in document
\* order: its untruncated text, its similarity, and only suggestions of
\* sentences at or before it that scored >= 0.5; no later sentence is scored.
C4_FirstMatchShortCircuit ==
  Called =>
    LET f == Facts
        reaching == AtLeast(f, threshold)
    IN  (~f.contains /\ reaching # {}) =>
          LET k == First(reaching)
              upTo == {i \in AtLeast(f, SuggestionFloor) : i <= k}
          IN  /\ match.found
              /\ match.context = f.cands[k]
              /\ match.score = f.sims[k]
              /\ match.scored = k
              /\ match.suggestions = EntriesOf(f, upTo)

\* C4's case: several candidates reach the threshold, a later one scores
\* higher than the one reported, and sentences before it were collected.
C4_Witness ==
  /\ Called
  /\ Len(match.suggestions) >= 2
  /\ LET f == Facts
         reaching == AtLeast(f, threshold)
     IN  /\ ~f.contains
         /\ Cardinality(reaching) >= 2
         /\ \E i \in reaching : RatGT(f.sims[i], match.score)

\* C5: when neither the exact test nor a candidate reaches the threshold the
\* result is not found, its score the maximum similarity over the candidates
\* (0.0 without candidates), its context the first candidate attaining that
\* maximum (empty when the maximum is 0), and its suggestions the 3
\* highest-scoring of the entries that scored >= 0.5, in descending order.
C5_NotFoundResult ==
  Called =>
    LET f == Facts
    IN  (~f.contains /\ AtLeast(f, threshold) = {}) =>
          LET all == 1..Len(f.cands)
              positive == {i \in all : /\ RatGT(f.sims[i], Zero)
                                       /\ \A j \in all : RatGE(f.sims[i], f.sims[j])}
              collected == EntriesOf(f, AtLeast(f, SuggestionFloor))
              sugg == match.suggestions
              keys == ScoresOf(sugg)
          IN  /\ ~match.found
              /\ IF positive = {}
                 THEN match.score = Zero /\ match.context = <<>>
                 ELSE /\ match.score = f.sims[First(positive)]
                      /\ match.context = f.cands[First(positive)]
              /\ Len(sugg) = Min(3, Len(collected))
              /\ IsDescending(keys)
              /\ \A n \in 1..Len(sugg) :
                    CountIn(sugg[n], sugg) <= CountIn(sugg[n], collected)
              /\ \A n \in 1..Len(collected) :
                    CountIn(collected[n], sugg) < CountIn(collected[n], collected) =>
                       \A m \in 1..Len(sugg) : SuggestionKey(collected[n]) <= keys[m]

\* C5's case: more than 3 sentences scored >= 0.5, none reached the
\* threshold, and their document order was not the descending one.
C5_Witness ==
  /\ Called
  /\ match.context # <<>>
  /\ LET f == Facts
         collected == EntriesOf(f, AtLeast(f, SuggestionFloor))
     IN  /\ ~f.contains /\ AtLeast(f, threshold) = {}
         /\ Len(collected) > 3
         /\ ~IsDescending(ScoresOf(collected))

\* ------------------------------------------- validate_supporting_text

\* Python's None where a score is expected.
None == <<0, 0>>

\* Python's None where content is expected: no sequence of characters.
NoContent == <<"None">>

StartsWith(s, prefix) ==
  Len(s) >= Len(prefix) /\ SubSeq(s, 1, Len(prefix)) = prefix

PmidPrefix == <<"P", "M", "I", "D", ":">>

HttpPrefix == <<"h", "t", "t", "p">>

\* The test of line 394, negated.
SupportedReference(reference) ==
  StartsWith(reference, PmidPrefix) \/ StartsWith(reference, HttpPrefix)

\* ContentFetcher.cache, a dict, as the set of its items.
Cached(c, key) == \E e \in c : e[1] = key

CacheGet(c, key) == (CHOOSE e \in c : e[1] = key)[2]

\* A cache that stores nothing.
CacheKeep(c, key, content) == c

CachePut(c, key, content) == {e \in c : e[1] # key} \cup {<<key, content>>}

\* What get_pmid_text can do: return a text, an empty one included (None is
\* treated like the empty text by line 188), or raise.
PmidReplies(bodies) ==
  {[kind |-> "text", status |-> 0, body |-> b] : b \in bodies \cup {<<>>}}
    \cup {[kind |-> "raise", status |-> 0, body |-> <<>>]}

\* What session.get can do: answer 200 with a body, an empty one included,
\* answer another status, or raise (the timeout of line 205 included).
UrlReplies(bodies) ==
  {[kind |-> "status", status |-> 200, body |-> b] : b \in bodies \cup {<<>>}}
    \cup {[kind |-> "status", status |-> 404, body |-> <<>>],
          [kind |-> "raise", status |-> 0, body |-> <<>>]}

\* ContentFetcher.fetch_pmid_content past the cache: what it returns.
PmidContent(reply) ==
  IF reply.kind = "text" /\ reply.body # <<>> THEN reply.body ELSE NoContent

\* ContentFetcher.fetch_url_content past the cache: what it returns.
UrlContent(reply) ==
  IF reply.kind = "status" /\ reply.status = 200 THEN reply.body ELSE NoContent

\* The separators of re.split(r'[,\s\-_]+', ...).
KeywordSeparators == Whitespace \cup {",", "-", "_"}

\* The stop words of lines 281 and 295.
stop_words ==
  {<<"s", "y", "n", "d", "r", "o", "m", "e">>,
   <<"d", "i", "s", "e", "a", "s", "e">>,
   <<"d", "i", "s", "o", "r", "d", "e", "r">>,
   <<"t", "h", "e">>, <<"o", "f">>, <<"a", "n", "d">>, <<"o", "r">>,
   <<"a">>, <<"a", "n">>}

\* re.split(r'[,\s\-_]+', s): the pieces between maximal runs of separators,
\* with the empty piece before a leading and after a trailing run.
SplitSeparators(s) ==
  LET isS(i) == s[i] \in KeywordSeparators
      starts == {1} \cup {i \in 2..(Len(s) + 1) :
                            isS(i - 1) /\ (i = Len(s) + 1 \/ ~isS(i))}
      ends == {j \in 1..Len(s) : ~isS(j) /\ (j = Len(s) \/ isS(j + 1))}
      EndOf(i) == IF i > Len(s) \/ isS(i) THEN i - 1
                  ELSE CHOOSE j \in ends : j >= i /\ \A k \in ends : k >= i => j <= k
  IN  Concat([i \in 1..(Len(s) + 1) |->
                IF i \in starts THEN <<SubSeq(s, i, EndOf(i))>> ELSE <<>>])

\* The list comprehension of lines 282 and 296 over the words of name: the
\* non-empty words that are no stop words and longer than 2 characters.
KeptWordsAnyLength(name) ==
  LET words == SplitSeparators(Lower(name))
  IN  {words[i] : i \in {j \in 1..Len(words) :
                           words[j] # <<>> /\ words[j] \notin stop_words}}

KeptWords(name) ==
  LET words == SplitSeparators(Lower(name))
  IN  {words[i] : i \in {j \in 1..Len(words) :
                           /\ words[j] # <<>>
                           /\ words[j] \notin stop_words
                           /\ Len(words[j]) > 2}}

\* TextValidator._fetch_disease_synonyms: nothing without a disease id or
\* when the request fails; otherwise the non-empty values of the reply (the
\* synonyms and the name), lowercased and stripped.
fetch_disease_synonyms(disease_id, reply) ==
  IF disease_id = <<>> \/ reply.kind # "ok" THEN {}
  ELSE {Strip(Lower(syn)) : syn \in {v \in reply.values : v # <<>>}}

\* Lines 276-285: the kept words of the disease name and the name lowercased.
KeywordsOfName(disease_name) ==
  IF disease_name = <<>> THEN {}
  ELSE KeptWords(disease_name) \cup {Lower(disease_name)}

\* Lines 288-297: the synonyms and the kept words of each.
KeywordsOfSynonyms(synonyms) ==
  synonyms \cup UNION {KeptWords(synonym) : synonym \in synonyms}

\* TextValidator._extract_disease_keywords: list(set(keywords)), as the set
\* of its elements; synonyms is what _fetch_disease_synonyms returned.
extract_disease_keywords(disease_name, synonyms) ==
  KeywordsOfName(disease_name) \cup KeywordsOfSynonyms(synonyms)

\* TextValidator.disease_keywords of a validator built without a disease name
\* and without a disease id.
NoKeywords == {}

\* check_disease_relevance with one of its rules changed: without the return
\* of line 304, with  >  in the test of line 318, or with an override that
\* sets the score to 0.8 whatever the keyword score.
RelevanceChanged(disease_keywords, disease_name, content, default, strict, flat) ==
  IF default /\ disease_keywords = {} THEN <<"True", One>>
  ELSE
    LET normalized_content == normalize_text(content)
        matches == Cardinality({k \in disease_keywords :
                                  IsSubstring(k, normalized_content)})
        relevance_score == IF disease_keywords = {} THEN Zero
                           ELSE <<matches, Cardinality(disease_keywords)>>
    IN  IF disease_name # <<>> /\ IsSubstring(Lower(disease_name), normalized_content)
        THEN <<"True", IF ~flat /\ RatGE(relevance_score, <<4, 5>>)
                       THEN relevance_score ELSE <<4, 5>>>>
        ELSE <<IF (IF strict THEN RatGT(relevance_score, <<1, 5>>)
                   ELSE RatGE(relevance_score, <<1, 5>>))
               THEN "True" ELSE "False",
               relevance_score>>

RelevanceWithoutDefault(disease_keywords, disease_name, content) ==
  RelevanceChanged(disease_keywords, disease_name, content, FALSE, FALSE, FALSE)

RelevanceStrictlyAbove(disease_keywords, disease_name, content) ==
  RelevanceChanged(disease_keywords, disease_name, content, TRUE, TRUE, FALSE)

RelevanceFlatOverride(disease_keywords, disease_name, content) ==
  RelevanceChanged(disease_keywords, disease_name, content, TRUE, FALSE, TRUE)

\* TextValidator.check_disease_relevance: <<is_relevant, relevance_score>>.
check_disease_relevance(disease_keywords, disease_name, content) ==
  IF disease_keywords = {} THEN <<"True", One>>
  ELSE
    LET normalized_content == normalize_text(content)
        matches == Cardinality({k \in disease_keywords :
                                  IsSubstring(k, normalized_content)})
        relevance_score == <<matches, Cardinality(disease_keywords)>>
    IN  IF disease_name # <<>> /\ IsSubstring(Lower(disease_name), normalized_content)
        THEN <<"True", IF RatGE(relevance_score, <<4, 5>>)
                       THEN relevance_score ELSE <<4, 5>>>>
        ELSE <<IF RatGE(relevance_score, <<1, 5>>) THEN "True" ELSE "False",
               relevance_score>>

RejectedResultScored(text, reference) ==
  [hpo_id |-> "", text |-> text, reference |-> reference, found |-> FALSE,
   similarity_score |-> Zero, disease_relevant |-> "None",
   disease_relevance_score |-> None,
   error |-> "Only PMID and URL references supported",
   context |-> <<>>, suggestions |-> <<>>]

\* The ValidationResult of lines 395-398.
RejectedResult(text, reference) ==
  [hpo_id |-> "", text |-> text, reference |-> reference, found |-> FALSE,
   similarity_score |-> None, disease_relevant |-> "None",
   disease_relevance_score |-> None,
   error |-> "Only PMID and URL references supported",
   context |-> <<>>, suggestions |-> <<>>]

\* The ValidationResult of lines 402-405.
FailedResult(text, reference) ==
  [hpo_id |-> "", text |-> text, reference |-> reference, found |-> FALSE,
   similarity_score |-> None, disease_relevant |-> "None",
   disease_relevance_score |-> None, error |-> "Could not fetch content",
   context |-> <<>>, suggestions |-> <<>>]

\* The ValidationResult of lines 413-418, from what check_disease_relevance
\* and find_text_in_content returned.
ResultOf(text, reference, relevance, m) ==
  [hpo_id |-> "", text |-> text, reference |-> reference,
   found |-> m.found, similarity_score |-> m.score,
   disease_relevant |-> relevance[1],
   disease_relevance_score |-> relevance[2], error |-> "None",
   context |-> m.context, suggestions |-> m.suggestions]

\* Lines 408-418; line 411 passes no threshold, so
\* find_text_in_content runs with the default of its signature.
MatchedResult(text, reference, content) ==
  ResultOf(text, reference,
           check_disease_relevance(NoKeywords, <<>>, content),
           find_text_in_content(text, content, DefaultThreshold))

\* TextValidator.validate_supporting_text, given what fetch_content returns
\* for the reference when it is called.
validate_supporting_text(text, reference, content) ==
  IF ~SupportedReference(reference) THEN RejectedResult(text, reference)
  ELSE IF content = NoContent THEN FailedResult(text, reference)
  ELSE MatchedResult(text, reference, content)

\* ------------------------------------------- validate_annotation_file

\* The list sections of line 443.
sections ==
  <<"phenotypic_features", "inheritance", "clinical_course",
    "diagnostic_methodology", "relevant_publications">>

\* The sections whose frequency_supporting_text is read (line 499).
HasFrequencyTexts(section_name) ==
  section_name \notin {"diagnostic_methodology", "relevant_publications"}

HasText(entry) == entry.text # <<>>

\* The tests of lines 485 and 505.
HasTextAndReference(entry) == entry.text # <<>> /\ entry.reference # <<>>

NullId == <<"n", "u", "l", "l">>

\* The test of line 462.
HasMethodId(annotation) ==
  annotation.method_id # <<>> /\ annotation.method_id # NullId

\* IdentifierValidator.validate_identifier for an identifier that is not
\* DOI-shaped: lines 145-154 and 162-171.
validate_identifier(method_name, method_id) ==
  [method_name |-> method_name, method_id |-> method_id, valid |-> TRUE,
   title_match |-> "None", retrieved_title |-> NoContent,
   error |-> IF method_id = <<>> \/ Lower(method_id) = NullId THEN "None"
             ELSE "Identifier type not validated (no API available)"]

DoiPrefix == <<"D", "O", "I", ":">>

BareDoiPrefix == <<"1", "0", ".">>

\* The tests of lines 157 and 160 with the letter case ignored.
IsDoiAnyCase(method_id) ==
  \/ StartsWith(Lower(method_id), Lower(DoiPrefix))
  \/ StartsWith(method_id, BareDoiPrefix)

\* The tests of lines 157 and 160.
IsDoi(method_id) ==
  StartsWith(method_id, DoiPrefix) \/ StartsWith(method_id, BareDoiPrefix)

\* The identifier as given, the prefix kept.
DoiUnstripped(method_id) == method_id

\* The identifier validate_doi is called with (lines 158 and 162).
DoiOf(method_id) ==
  IF StartsWith(method_id, DoiPrefix)
  THEN SubSeq(method_id, Len(DoiPrefix) + 1, Len(method_id))
  ELSE method_id

\* The branch of validate_identifier an identifier takes: lines 145 and 157-163.
Validated(method_id) ==
  /\ method_id # <<>>
  /\ Lower(method_id) # NullId
  /\ IsDoi(method_id)

\* The stop words of _check_title_match (line 129).
title_stop_words ==
  {<<"t", "h", "e">>, <<"a">>, <<"a", "n">>, <<"a", "n", "d">>, <<"o", "r">>,
   <<"b", "u", "t">>, <<"i", "n">>, <<"o", "n">>, <<"a", "t">>, <<"t", "o">>,
   <<"f", "o", "r">>, <<"o", "f">>, <<"w", "i", "t", "h">>, <<"b", "y">>,
   <<"f", "r", "a", "m", "e", "w", "o", "r", "k">>,
   <<"c", "r", "i", "t", "e", "r", "i", "a">>}

\* set(re.findall(r'\b\w+\b', s.lower().strip())) - stop_words
TitleWords(s) ==
  LET ws == FindWords(Strip(Lower(s)))
  IN  {ws[i] : i \in 1..Len(ws)} \ title_stop_words

\* _check_title_match with a threshold that is reached at one half.
TitleMatchAtHalf(method_name, retrieved_title) ==
  IF retrieved_title = NoContent \/ retrieved_title = <<>> THEN "False"
  ELSE IF TitleWords(method_name) = {} THEN "False"
  ELSE IF 2 * Cardinality(TitleWords(method_name) \cap TitleWords(retrieved_title))
            >= Cardinality(TitleWords(method_name))
  THEN "True" ELSE "False"

\* IdentifierValidator._check_title_match; retrieved_title is NoContent for
\* None.  The result is "True" or "False".
check_title_match(method_name, retrieved_title) ==
  IF retrieved_title = NoContent \/ retrieved_title = <<>> THEN "False"
  ELSE LET method_words == TitleWords(method_name)
           title_words == TitleWords(retrieved_title)
       IN  IF method_words = {} THEN "False"
           ELSE IF 2 * Cardinality(method_words \cap title_words)
                     > Cardinality(method_words)
                THEN "True" ELSE "False"

\* A value of IdentifierValidator.cache; a key that is not set is NoContent
\* for title and "None" for error, as cached.get returns None for it.
CacheEntry(valid, title, error) ==
  [valid |-> valid, title |-> title, error |-> error]

\* What the request of line 73 can do: answer 200 with a title or without
\* one, answer another status, or raise.
LookupSucceeded(reply) == reply.kind = "status" /\ reply.status = 200

\* The error message of lines 90 and 103.
DoiError(reply) ==
  IF reply.kind = "status" THEN "DOI not found (HTTP 404)"
  ELSE "Error validating DOI: timeout"

\* validate_doi when the DOI is in the cache: lines 57-66.
CachedDoi(method_name, doi, cached) ==
  [method_name |-> method_name, method_id |-> doi, valid |-> cached.valid,
   title_match |-> check_title_match(method_name, cached.title),
   retrieved_title |-> cached.title, error |-> cached.error]

\* The cache entry validate_doi writes for a reply: lines 77, 91 and 104.
EntryOfReply(reply) ==
  IF LookupSucceeded(reply) THEN CacheEntry(TRUE, reply.title, "None")
  ELSE CacheEntry(FALSE, NoContent, DoiError(reply))

\* validate_doi past the cache: lines 68-113.
LookedUpDoi(method_name, doi, reply) ==
  IF LookupSucceeded(reply)
  THEN [method_name |-> method_name, method_id |-> doi, valid |-> TRUE,
        title_match |-> check_title_match(method_name, reply.title),
        retrieved_title |-> reply.title, error |-> "None"]
  ELSE [method_name |-> method_name, method_id |-> doi, valid |-> FALSE,
        title_match |-> "None", retrieved_title |-> NoContent,
        error |-> DoiError(reply)]

\* The iterations of the loops of lines 481 and 501 over one list of entries.
EntryItems(section_name, annotation, entries) ==
  [i \in 1..Len(entries) |->
     [kind |-> "entry", section |-> section_name, name |-> annotation.name,
      method_id |-> annotation.method_id, entry |-> entries[i]]]

\* The body of the loop of line 452 for one annotation: the identifier check
\* of lines 462-464, the supporting texts, the frequency supporting texts.
AnnotationItems(section_name, annotation) ==
  (IF section_name = "diagnostic_methodology" /\ HasMethodId(annotation)
   THEN <<[kind |-> "identifier", section |-> section_name,
           name |-> annotation.name, method_id |-> annotation.method_id,
           entry |-> [text |-> <<>>, reference |-> <<>>]]>>
   ELSE <<>>)
    \o EntryItems(section_name, annotation, annotation.supporting_text)
    \o (IF HasFrequencyTexts(section_name)
        THEN EntryItems(section_name, annotation,
                        annotation.frequency_supporting_text)
        ELSE <<>>)

\* The body of the loop of line 445 for one section name.
SectionItems(file, section_name) ==
  LET present == {k \in 1..Len(file.sections) :
                    file.sections[k].name = section_name}
  IN  IF present = {} THEN <<>>
      ELSE LET annotations ==
                 file.sections[CHOOSE k \in present : TRUE].annotations
           IN  Concat([j \in 1..Len(annotations) |->
                         AnnotationItems(section_name, annotations[j])])

\* The iterations of validate_annotation_file over a file, in the order in
\* which the loops of lines 445-509 reach them.
ProcessingOrder(file) ==
  Concat([s \in 1..Len(sections) |-> SectionItems(file, sections[s])])

\* ------------------------------------------------ inputs of the batch

\*   "PMID:1"
RefPmid == <<"P", "M", "I", "D", ":", "1">>

\*   "http://a"
RefUrl == <<"h", "t", "t", "p", ":", "/", "/", "a">>

\*   "DOI:1", a reference that validate_supporting_text does not support.
RefDoi == <<"D", "O", "I", ":", "1">>

\*   "LOINC:1", a method identifier that is not DOI-shaped.
MethodLoinc == <<"L", "O", "I", "N", "C", ":", "1">>

\* The entries of a supporting_text or frequency_supporting_text list: a
\* quotation with each kind of reference, one without text, one without
\* reference.
EntryPool ==
  {[text |-> QuoteFour, reference |-> RefPmid],
   [text |-> QuoteFour, reference |-> RefUrl],
   [text |-> QuoteFour, reference |-> RefDoi],
   [text |-> <<>>, reference |-> RefPmid],
   [text |-> QuoteFour, reference |-> <<>>]}

\* The section names of a file: one with an HPO term and one without.
SectionNames == {"phenotypic_features", "diagnostic_methodology"}

\* Every file of at most this many entries is an input.
MaxEntries == 1

MethodIds(section_name) ==
  IF section_name = "diagnostic_methodology" THEN {<<>>, MethodLoinc}
  ELSE {<<>>}

\* The annotations with n entries, spread over the two lists.
AnnotationsWith(n, section_name) ==
  UNION {{[name |-> section_name, method_id |-> m, supporting_text |-> st,
           frequency_supporting_text |-> fst] :
            st \in [1..k -> EntryPool], fst \in [1..(n - k) -> EntryPool],
            m \in MethodIds(section_name)} : k \in 0..n}

\* A section holds one annotation.
SectionsWith(n, section_name) ==
  {[name |-> section_name, annotations |-> <<a>>] :
     a \in AnnotationsWith(n, section_name)}

\* The files of one section with n entries.
OneSection(n) ==
  UNION {{<<s>> : s \in SectionsWith(n, nm)} : nm \in SectionNames}

\* The files of two sections with distinct names and n entries together, in
\* both orders.
TwoSections(n) ==
  UNION {UNION {{<<s1, s2>> : s1 \in SectionsWith(m, nm[1]),
                              s2 \in SectionsWith(n - m, nm[2])} :
                  m \in 0..n} :
           nm \in {p \in SectionNames \X SectionNames : p[1] # p[2]}}

\* A section whose annotation has the given supporting texts and no
\* frequency supporting texts.
SectionWith(section_name, supporting_text) ==
  [name |-> section_name,
   annotations |->
     <<[name |-> section_name,
        method_id |-> IF section_name = "diagnostic_methodology"
                      THEN MethodLoinc ELSE <<>>,
        supporting_text |-> supporting_text,
        frequency_supporting_text |-> <<>>]>>]

\* Besides the files of at most MaxEntries entries: every file of one section
\* with two supporting texts, and every file of two sections, in both orders,
\* with one supporting text each.
Files ==
  {[sections |-> ss] :
     ss \in {<<>>}
       \cup UNION {OneSection(n) \cup TwoSections(n) : n \in 0..MaxEntries}
       \cup {<<SectionWith("phenotypic_features", st)>> :
               st \in [1..2 -> EntryPool]}
       \cup {<<SectionWith(nm[1], <<e1>>), SectionWith(nm[2], <<e2>>)>> :
               e1 \in EntryPool, e2 \in EntryPool,
               nm \in {p \in SectionNames \X SectionNames : p[1] # p[2]}}}

\* The texts the external sources answer with: one whose best sentence has
\* similarity 0.6 with QuoteFour, one with 0.8.
Bodies == {SentSixty, SentBoundary}

\* The values of --threshold: 0.6 and the default.
BatchThresholds == {<<3, 5>>, DefaultThreshold}

\* ---------------------------------------- validate_annotation_file, run

\* The value of pc once validate_annotation_file has returned.
Returned == "returned"

InitBatch ==
  /\ MatchIdle
  /\ TextIdle
  /\ RelevanceIdle
  /\ IdentifierIdle
  /\ McpIdle
  /\ RaceIdle
  /\ FetcherIdle
  /\ CopiesIdle
  /\ data \in Files
  /\ similarity_threshold \in BatchThresholds
  /\ cache = {}
  /\ results = <<>>
  /\ identifier_results = <<>>
  /\ todo = ProcessingOrder(data)
  /\ pc = "loops"
  /\ calls = <<>>

\* The loop iteration that comes next.
AtItem(kind) ==
  /\ pc = "loops"
  /\ todo # <<>>
  /\ Head(todo).kind = kind

Item == Head(todo)

\* Lines 486-496 and 506-509: validate_supporting_text has been called on the
\* entry and fetch_content, if it was called, returned content.
Validate(content, call) ==
  /\ results' =
       Append(results,
              [validate_supporting_text(Item.entry.text, Item.entry.reference,
                                        content)
                 EXCEPT !.hpo_id = Item.name])
  /\ calls' = Append(calls, call)
  /\ todo' = Tail(todo)
  /\ pc' = pc
  /\ UNCHANGED <<data, similarity_threshold, identifier_results>>
  /\ UNCHANGED <<matchVars, mcpVars, textVars, relevanceVars, identifierVars,
                 raceVars, fetchVars, copyVars>>

\* What a call of validate_supporting_text did: whether fetch_content was
\* called, which external source and what it replied, the content that came
\* back, whether find_text_in_content was called and with which threshold,
\* and the cache before and after the call.
Call(fetcher, source, reply, content, matcher, cache_after) ==
  [fetcher |-> fetcher, source |-> source, reply |-> reply,
   content |-> content, matcher |-> matcher,
   threshold |-> IF matcher THEN DefaultThreshold ELSE None,
   cache_before |-> cache, cache_after |-> cache_after]

NoReply == [kind |-> "none", status |-> 0, body |-> <<>>]

\* Lines 482-485 and 502-505: an entry without text or without reference.
SkipEntry ==
  /\ AtItem("entry")
  /\ ~HasTextAndReference(Item.entry)
  /\ todo' = Tail(todo)
  /\ pc' = pc
  /\ UNCHANGED <<data, similarity_threshold, cache, results,
                 identifier_results, calls>>
  /\ UNCHANGED <<matchVars, mcpVars, textVars, relevanceVars, identifierVars,
                 raceVars, fetchVars, copyVars>>

\* Lines 394-398: the reference is not supported.
RejectReference ==
  /\ AtItem("entry")
  /\ HasTextAndReference(Item.entry)
  /\ ~SupportedReference(Item.entry.reference)
  /\ Validate(NoContent,
              Call(FALSE, "none", NoReply, NoContent, FALSE, cache))
  /\ UNCHANGED cache

\* Lines 182-183 and 201-202: the reference is a key of the cache.
ValidateCached ==
  /\ AtItem("entry")
  /\ HasTextAndReference(Item.entry)
  /\ SupportedReference(Item.entry.reference)
  /\ Cached(cache, Item.entry.reference)
  /\ LET content == CacheGet(cache, Item.entry.reference)
     IN  Validate(content, Call(TRUE, "none", NoReply, content,
                                content # NoContent, cache))
  /\ UNCHANGED cache

\* Lines 185-197: get_pmid_text is called.
ValidatePmid ==
  /\ AtItem("entry")
  /\ HasTextAndReference(Item.entry)
  /\ StartsWith(Item.entry.reference, PmidPrefix)
  /\ ~Cached(cache, Item.entry.reference)
  /\ \E reply \in PmidReplies(Bodies) :
       LET content == PmidContent(reply)
           cache_after == IF content # NoContent
                          THEN CachePut(cache, Item.entry.reference, content)
                          ELSE cache
       IN  /\ Validate(content, Call(TRUE, "pmid", reply, content,
                                     content # NoContent, cache_after))
           /\ cache' = cache_after

\* Lines 204-217: the URL is requested.
ValidateUrl ==
  /\ AtItem("entry")
  /\ HasTextAndReference(Item.entry)
  /\ ~StartsWith(Item.entry.reference, PmidPrefix)
  /\ StartsWith(Item.entry.reference, HttpPrefix)
  /\ ~Cached(cache, Item.entry.reference)
  /\ \E reply \in UrlReplies(Bodies) :
       LET content == UrlContent(reply)
           cache_after == IF reply.kind = "status" /\ reply.status = 200
                          THEN CachePut(cache, Item.entry.reference, content)
                          ELSE cache
       IN  /\ Validate(content, Call(TRUE, "url", reply, content,
                                     content # NoContent, cache_after))
           /\ cache' = cache_after

\* Lines 462-464.
ValidateIdentifier ==
  /\ AtItem("identifier")
  /\ identifier_results' =
       Append(identifier_results,
              validate_identifier(Item.name, Item.method_id))
  /\ todo' = Tail(todo)
  /\ pc' = pc
  /\ UNCHANGED <<data, similarity_threshold, cache, results, calls>>
  /\ UNCHANGED <<matchVars, mcpVars, textVars, relevanceVars, identifierVars,
                 raceVars, fetchVars, copyVars>>

\* Line 511.
Return ==
  /\ pc = "loops"
  /\ todo = <<>>
  /\ pc' = Returned
  /\ todo' = todo
  /\ UNCHANGED <<data, similarity_threshold, cache, results,
                 identifier_results, calls>>
  /\ UNCHANGED <<matchVars, mcpVars, textVars, relevanceVars, identifierVars,
                 raceVars, fetchVars, copyVars>>

NextBatch ==
  \/ SkipEntry
  \/ RejectReference
  \/ ValidateCached
  \/ ValidatePmid
  \/ ValidateUrl
  \/ ValidateIdentifier
  \/ Return

SpecBatch == InitBatch /\ [][NextBatch]_vars

\* ------------------------------------------------- claims on the batch

\* The results so far, each with what its validate_supporting_text called.
Validations == 1..Len(results)

\* The external source was asked and gave no content: it raised, answered a
\* status other than 200, or returned an empty text.
GaveNoContent(call) == call.source # "none" /\ call.reply.body = <<>>

\* C6: a result for a reference that starts with neither "PMID:" nor "http"
\* has found = false, an error string and no similarity score; neither the
\* content fetcher nor an external source nor the matcher was called for it,
\* and the cache after the call is the cache before it.
C6_UnsupportedReference ==
  \A i \in Validations :
    ~(StartsWith(results[i].reference, PmidPrefix)
        \/ StartsWith(results[i].reference, HttpPrefix))
      => /\ results[i].found = FALSE
         /\ results[i].error = "Only PMID and URL references supported"
         /\ results[i].similarity_score = None
         /\ ~calls[i].fetcher
         /\ calls[i].source = "none"
         /\ ~calls[i].matcher
         /\ calls[i].cache_after = calls[i].cache_before

\* An unsupported reference was validated while the cache held content.
C6_Witness ==
  \E i \in Validations :
    /\ results[i].reference = RefDoi
    /\ calls[i].cache_before # {}
    /\ results[i].error # "None"

\* C7: whenever the external source gives no content for a supported
\* reference (it raises, answers another status than 200, or returns an empty
\* body), find_text_in_content is not called and the result has found = false,
\* the error "Could not fetch content" and no similarity score.
C7_NoContentNoMatch ==
  \A i \in Validations :
    GaveNoContent(calls[i])
      => /\ ~calls[i].matcher
         /\ results[i].found = FALSE
         /\ results[i].error = "Could not fetch content"
         /\ results[i].similarity_score = None

\* The entries of one list of an annotation, as the file has them.
ListEntries(section, annotation, field, entries) ==
  [i \in 1..Len(entries) |->
     [section |-> section.name, name |-> annotation.name, field |-> field,
      text |-> entries[i].text, reference |-> entries[i].reference]]

\* Every supporting_text and frequency_supporting_text entry of a file, in
\* file order.
FileEntries(file) ==
  Concat([k \in 1..Len(file.sections) |->
    Concat([j \in 1..Len(file.sections[k].annotations) |->
      LET a == file.sections[k].annotations[j]
      IN  ListEntries(file.sections[k], a, "supporting_text",
                      a.supporting_text)
            \o ListEntries(file.sections[k], a, "frequency_supporting_text",
                           a.frequency_supporting_text)])])

\* Text and reference are both non-empty.
Complete(e) == e.text # <<>> /\ e.reference # <<>>

KeysOf(es) == [i \in 1..Len(es) |-> <<es[i].name, es[i].text, es[i].reference>>]

\* Whose entry each result is.
ResultKeys == [i \in Validations |-> <<results[i].hpo_id, results[i].text, results[i].reference>>]

\* An entry of one of the five sections of line 443.
Known(e) == \E s \in 1..Len(sections) : sections[s] = e.section

\* The sections with an HPO term.
HpoSections == {"phenotypic_features", "inheritance", "clinical_course"}

\* The entries validate_annotation_file reads: of the five sections it knows,
\* the frequency_supporting_text only of the sections with an HPO term.
IsRead(e) ==
  /\ Known(e)
  /\ e.field = "supporting_text" \/ e.section \in HpoSections

\* The complete entries that are read, ordered by section as the list of line
\* 443 orders the sections, and within a section in file order.
ReadEntries(file) ==
  LET InSection(s) ==
        LET Test(e) == e.section = sections[s] /\ IsRead(e) /\ Complete(e)
        IN  SelectSeq(FileEntries(file), Test)
  IN  Concat([s \in 1..Len(sections) |-> InSection(s)])

KnownAndComplete(e) == Known(e) /\ Complete(e)

C10_ThresholdEndToEnd ==
  \A i \in Validations :
    calls[i].matcher
      => /\ calls[i].threshold = similarity_threshold
         /\ results[i].found
              = find_text_in_content(results[i].text, calls[i].content,
                                     similarity_threshold).found

\* ------------------------------------- the matchers of the MCP servers

\* The characters of a text that a result shows (line 624).
PreviewLen == 50

\* The characters of a context that a result shows (line 649).
ContextPreviewLen == 100

\* text[:50] + "..." if len(text) > 50 else text
Preview(text) ==
  IF Len(text) > PreviewLen THEN SubSeq(text, 1, PreviewLen) \o Ellipsis
  ELSE text

\* context[:100] + "..." if len(context) > 100 else context
ContextPreview(context) ==
  IF Len(context) > ContextPreviewLen
  THEN SubSeq(context, 1, ContextPreviewLen) \o Ellipsis
  ELSE context

\* How many of the words of a list are in a set of words.
Matches(words, word_set) ==
  Cardinality({i \in 1..Len(words) : words[i] \in word_set})

\* Lines 119-131 of simple_aurelian_mcp.py: the first sentence with the
\* highest share of the supporting words, "" when no sentence has one.
BestSentence(supporting_words, paper_text) ==
  LET sents == SplitSentences(paper_text)
      score == [i \in 1..Len(sents) |->
                  LET ws == FindWords(Lower(sents[i]))
                  IN  Matches(supporting_words, {ws[k] : k \in 1..Len(ws)})]
      best == {i \in 1..Len(sents) :
                 /\ score[i] > 0
                 /\ \A j \in 1..Len(sents) : score[j] <= score[i]
                 /\ \A j \in 1..(i - 1) : score[j] < score[i]}
  IN  IF best = {} THEN <<>> ELSE Strip(sents[CHOOSE i \in best : TRUE])

\* simple_aurelian_mcp.find_supporting_text_in_paper
find_supporting_text_in_paper(supporting_text, paper_text) ==
  LET supporting_lower == Lower(supporting_text)
      paper_lower == Lower(paper_text)
      supporting_words == FindWords(supporting_lower)
      pw == FindWords(paper_lower)
      matched == Matches(supporting_words, {pw[k] : k \in 1..Len(pw)})
      confidence == <<matched, Len(supporting_words)>>
  IN  IF IsSubstring(supporting_lower, paper_lower)
      THEN LET match_pos == Find(supporting_lower, paper_lower)
               start == Max(0, match_pos - ContextRadius)
               end == Min(Len(paper_text),
                          match_pos + Len(supporting_text) + ContextRadius)
           IN  [found |-> TRUE, confidence |-> One,
                context |-> Strip(SubSeq(paper_text, start + 1, end))]
      ELSE IF Len(supporting_words) < 2 \/ matched = 0
      THEN [found |-> FALSE, confidence |-> Zero, context |-> <<>>]
      ELSE IF RatGT(confidence, <<7, 10>>)
      THEN [found |-> RatGT(confidence, <<4, 5>>), confidence |-> confidence,
            context |-> BestSentence(supporting_words, paper_text)]
      ELSE [found |-> FALSE, confidence |-> confidence, context |-> <<>>]

\* The default threshold of AnnotationValidator.find_text_in_content.
ValidatorThreshold == <<7, 10>>

\* Lines 78-91 of validator.py, given the similarity of each candidate
\* sentence: the first that reaches the threshold, else the highest.
FirstReaching(sims, thr) ==
  LET hits == {i \in 1..Len(sims) : RatGE(sims[i], thr)}
      top == {i \in 1..Len(sims) : \A j \in 1..Len(sims) : RatGE(sims[i], sims[j])}
  IN  IF hits # {}
      THEN <<TRUE, sims[CHOOSE i \in hits : \A j \in hits : i <= j]>>
      ELSE IF top # {} THEN <<FALSE, sims[CHOOSE i \in top : TRUE]>>
      ELSE <<FALSE, Zero>>

SimilarityOfEach(normalized_supporting, cands) ==
  [i \in 1..Len(cands) |-> calculate_similarity(normalized_supporting, cands[i])]

\* Lines 77-83 of validator.py: the pieces of the normalized content,
\* stripped, at least MinSentenceLen long.
NormalizedCandidates(normalized_content) ==
  SelectSeq([i \in 1..Len(SplitSentences(normalized_content)) |->
               Strip(SplitSentences(normalized_content)[i])],
            LAMBDA x : Len(x) >= MinSentenceLen)

FindNormalized(normalized_supporting, normalized_content, thr) ==
  IF IsSubstring(normalized_supporting, normalized_content)
  THEN <<TRUE, One>>
  ELSE FirstReaching(SimilarityOfEach(normalized_supporting,
                                      NormalizedCandidates(normalized_content)),
                     thr)

\* AnnotationValidator.find_text_in_content (validator.py): <<found, score>>.
validator_find_text_in_content(supporting_text, content, thr) ==
  FindNormalized(normalize_text(supporting_text), normalize_text(content), thr)

ValidatedOf(m) ==
  [found |-> m[1], similarity_score |-> m[2], disease_relevant |-> TRUE,
   error |-> "None"]

\* AnnotationValidator.validate_annotation without disease keywords, given
\* the full text fetch_abstract returns for the PMID, NoContent for None.
validate_annotation(supporting_text, pmid, full_text) ==
  IF ~StartsWith(pmid, PmidPrefix)
  THEN [found |-> FALSE, similarity_score |-> Zero, disease_relevant |-> FALSE,
        error |-> "Only PMID references supported"]
  ELSE IF full_text = NoContent
  THEN [found |-> FALSE, similarity_score |-> Zero, disease_relevant |-> FALSE,
        error |-> "Could not fetch publication content"]
  ELSE ValidatedOf(validator_find_text_in_content(supporting_text, full_text,
                                                  ValidatorThreshold))

\* --------------------------------------------------- the tool handlers

\* An exception that leaves handle_call_tool.
Fault(error) == [kind |-> "fault", error |-> error]

\* A result dict of a handler: the keys it has and their values.
Dict(keys, text, reference, found, confidence, context, error) ==
  [keys |-> keys, text |-> text, reference |-> reference, found |-> found,
   confidence |-> confidence, context |-> context, error |-> error]

\* sum(1 for r in rs if r["found"])
CountFound(rs) == Cardinality({i \in 1..Len(rs) : rs[i].found})

\* What fetch_paper_text can return for a reference: the cached text, or what
\* PmidContent makes of a reply of get_pmid_text.
PaperTexts(c, reference) ==
  IF Cached(c, reference) THEN {CacheGet(c, reference)}
  ELSE {PmidContent(reply) : reply \in PmidReplies(Bodies)}

\* The full texts fetch_abstract can return for a PMID, NoContent for None.
AbstractTexts == Bodies \cup {NoContent}

\* Lines 163-187 of mcp_server.py: the summary of validate_hpo_annotation.
ServerHpoResponse(rs) ==
  IF Len(rs) = 0 THEN Fault("ZeroDivisionError")
  ELSE [kind |-> "response", total |-> Len(rs),
        found |-> CountFound(rs),
        percent |-> <<100 * CountFound(rs), Len(rs)>>,
        details |-> rs]

\* Lines 373-400 of simple_aurelian_mcp.py: the summary of
\* validate_hpo_annotation; line 382 divides by total.
SimpleHpoResponse(rs) ==
  IF Len(rs) = 0 THEN Fault("ZeroDivisionError")
  ELSE [kind |-> "response", total |-> Len(rs),
        found |-> CountFound(rs),
        percent |-> <<100 * CountFound(rs), Len(rs)>>,
        details |-> rs]

\* Lines 686-701: the details of one publication; line 689 divides by the
\* publication's total and line 695 reads content_type of every detail.
PublicationFault(pub_result) ==
  IF pub_result.total = 0 THEN "ZeroDivisionError"
  ELSE IF \E j \in 1..Len(pub_result.details) :
            "content_type" \notin pub_result.details[j].keys
  THEN "KeyError"
  ELSE "None"

\* Lines 669-703: the summary of validate_relevant_publications; line 680
\* divides by the number of matched entries.
PublicationsResponse(rs, all_validation_results) ==
  LET faulty == {i \in 1..Len(rs) : PublicationFault(rs[i]) # "None"}
  IN  IF Len(all_validation_results) = 0 THEN Fault("ZeroDivisionError")
      ELSE IF faulty # {}
      THEN Fault(PublicationFault(rs[CHOOSE i \in faulty :
                                        \A j \in faulty : i <= j]))
      ELSE [kind |-> "response", total |-> Len(all_validation_results),
            found |-> CountFound(all_validation_results),
            percent |-> <<100 * CountFound(all_validation_results),
                          Len(all_validation_results)>>,
            details |-> rs]

MatchedDictOf(keys, text, reference, m) ==
  Dict(keys, Preview(text), reference, m.found, m.confidence,
       ContextPreview(m.context), "None")

\* The result dict of lines 365-371 and 644-651.
MatchedDict(keys, text, reference, paper_text) ==
  MatchedDictOf(keys, text, reference,
                find_supporting_text_in_paper(text, paper_text))

\* The result dict of lines 154-161 of mcp_server.py.
ServerDict(entry, result) ==
  Dict({"text", "reference", "found", "similarity", "disease_relevant",
        "error"},
       Preview(entry.text), entry.reference, result.found,
       result.similarity_score, <<>>, result.error)

Running(name) == tool = name /\ response = NoResponse

\* Lines 148-161 of mcp_server.py: one iteration of the loop of
\* validate_hpo_annotation.
ServerHpoEntry ==
  /\ Running("mcp_server.validate_hpo_annotation")
  /\ locals.entry < Len(arguments.supporting_texts)
  /\ LET entry == arguments.supporting_texts[locals.entry + 1]
     IN  \E full_text \in AbstractTexts :
           locals' =
             [locals EXCEPT
                !.entry = @ + 1,
                !.results =
                  Append(@, ServerDict(entry,
                                       validate_annotation(entry.text,
                                                           entry.reference,
                                                           full_text)))]
  /\ UNCHANGED <<tool, arguments, paper_cache, response>>
  /\ UNCHANGED <<matchVars, batchVars, textVars, relevanceVars,
                 identifierVars, raceVars, fetchVars, copyVars>>

\* Lines 163-187 of mcp_server.py.
ServerHpoRespond ==
  /\ Running("mcp_server.validate_hpo_annotation")
  /\ locals.entry = Len(arguments.supporting_texts)
  /\ response' = ServerHpoResponse(locals.results)
  /\ UNCHANGED <<tool, arguments, locals, paper_cache>>
  /\ UNCHANGED <<matchVars, batchVars, textVars, relevanceVars,
                 identifierVars, raceVars, fetchVars, copyVars>>

\* Lines 342-371 of simple_aurelian_mcp.py: one iteration of the loop of
\* validate_hpo_annotation.
SimpleHpoEntry ==
  /\ Running("simple_aurelian_mcp.validate_hpo_annotation")
  /\ locals.entry < Len(arguments.supporting_texts)
  /\ LET entry == arguments.supporting_texts[locals.entry + 1]
         keys == {"text", "reference", "found", "confidence"}
     IN  IF entry.text = <<>> \/ entry.reference = <<>>
              \/ ~StartsWith(entry.reference, PmidPrefix)
         THEN /\ locals' = [locals EXCEPT !.entry = @ + 1]
              /\ UNCHANGED paper_cache
         ELSE \E paper_text \in PaperTexts(paper_cache, entry.reference) :
                /\ paper_cache' =
                     IF paper_text = NoContent THEN paper_cache
                     ELSE CachePut(paper_cache, entry.reference, paper_text)
                /\ locals' =
                     [locals EXCEPT
                        !.entry = @ + 1,
                        !.paper_ids = @ \cup {entry.reference},
                        !.results =
                          Append(@,
                            IF paper_text = NoContent
                            THEN Dict(keys \cup {"error"},
                                      SubSeq(entry.text, 1,
                                             Min(PreviewLen, Len(entry.text)))
                                        \o Ellipsis,
                                      entry.reference, FALSE, Zero, <<>>,
                                      "Could not fetch paper")
                            ELSE MatchedDict(keys \cup {"context"}, entry.text,
                                             entry.reference, paper_text))]
  /\ UNCHANGED <<tool, arguments, response>>
  /\ UNCHANGED <<matchVars, batchVars, textVars, relevanceVars,
                 identifierVars, raceVars, fetchVars, copyVars>>

\* Lines 373-400 of simple_aurelian_mcp.py.
SimpleHpoRespond ==
  /\ Running("simple_aurelian_mcp.validate_hpo_annotation")
  /\ locals.entry = Len(arguments.supporting_texts)
  /\ response' = SimpleHpoResponse(locals.results)
  /\ UNCHANGED <<tool, arguments, locals, paper_cache>>
  /\ UNCHANGED <<matchVars, batchVars, textVars, relevanceVars,
                 identifierVars, raceVars, fetchVars, copyVars>>

\* simple_aurelian_mcp.fetch_url_text: line 45 names ClientTimeout, which the
\* module does not define, so that every call that misses url_cache raises
\* NameError inside the try and returns None at line 58; url_cache, written
\* only at line 50, stays empty.
fetch_url_text(url) == NoContent

\* Lines 608-653 of simple_aurelian_mcp.py: one iteration of the inner loop of
\* validate_relevant_publications.
PublicationsEntry ==
  /\ Running("simple_aurelian_mcp.validate_relevant_publications")
  /\ locals.pub <= Len(arguments.publications)
  /\ locals.entry < Len(arguments.publications[locals.pub].supporting_text)
  /\ LET entry ==
           arguments.publications[locals.pub].supporting_text[locals.entry + 1]
         keys == {"text", "reference", "found", "confidence"}
         failed(error) == Dict(keys \cup {"error"}, Preview(entry.text),
                               entry.reference, FALSE, Zero, <<>>, error)
     IN  IF entry.text = <<>> \/ entry.reference = <<>>
         THEN /\ locals' = [locals EXCEPT !.entry = @ + 1]
              /\ UNCHANGED paper_cache
         ELSE IF StartsWith(entry.reference, PmidPrefix)
         THEN \E content \in PaperTexts(paper_cache, entry.reference) :
                /\ paper_cache' =
                     IF content = NoContent THEN paper_cache
                     ELSE CachePut(paper_cache, entry.reference, content)
                /\ IF content = NoContent
                   THEN locals' =
                          [locals EXCEPT
                             !.entry = @ + 1,
                             !.pub_results =
                               Append(@, failed("Could not fetch paper"))]
                   ELSE LET result ==
                              MatchedDict(keys \cup {"context", "content_type"},
                                          entry.text, entry.reference, content)
                        IN  locals' =
                              [locals EXCEPT
                                 !.entry = @ + 1,
                                 !.pub_results = Append(@, result),
                                 !.all_validation_results = Append(@, result)]
         ELSE IF StartsWith(entry.reference, HttpPrefix)
         THEN /\ fetch_url_text(entry.reference) = NoContent
              /\ locals' =
                   [locals EXCEPT
                      !.entry = @ + 1,
                      !.pub_results =
                        Append(@, failed("Could not fetch webpage"))]
              /\ UNCHANGED paper_cache
         ELSE /\ locals' =
                   [locals EXCEPT
                      !.entry = @ + 1,
                      !.pub_results =
                        Append(@, failed("Unsupported reference type"))]
              /\ UNCHANGED paper_cache
  /\ UNCHANGED <<tool, arguments, response>>
  /\ UNCHANGED <<matchVars, batchVars, textVars, relevanceVars,
                 identifierVars, raceVars, fetchVars, copyVars>>

\* Lines 655-667: the summary of one publication.
PublicationsSummary ==
  /\ Running("simple_aurelian_mcp.validate_relevant_publications")
  /\ locals.pub <= Len(arguments.publications)
  /\ locals.entry = Len(arguments.publications[locals.pub].supporting_text)
  /\ locals' =
       [locals EXCEPT
          !.pub = @ + 1,
          !.entry = 0,
          !.pub_results = <<>>,
          !.results =
            Append(@, [reference |-> arguments.publications[locals.pub].reference,
                       found |-> CountFound(locals.pub_results),
                       total |-> Len(locals.pub_results),
                       details |-> locals.pub_results])]
  /\ UNCHANGED <<tool, arguments, paper_cache, response>>
  /\ UNCHANGED <<matchVars, batchVars, textVars, relevanceVars,
                 identifierVars, raceVars, fetchVars, copyVars>>

\* Lines 669-703.
PublicationsRespond ==
  /\ Running("simple_aurelian_mcp.validate_relevant_publications")
  /\ locals.pub > Len(arguments.publications)
  /\ response' = PublicationsResponse(locals.results,
                                      locals.all_validation_results)
  /\ UNCHANGED <<tool, arguments, locals, paper_cache>>
  /\ UNCHANGED <<matchVars, batchVars, textVars, relevanceVars,
                 identifierVars, raceVars, fetchVars, copyVars>>

\* The entries of a supporting_texts argument, at most.
MaxTexts == 2

TextLists == UNION {[1..k -> EntryPool] : k \in 0..MaxTexts}

\* The publications arguments: up to two publications with at most MaxTexts
\* entries together.
PublicationLists ==
  {<<>>}
    \cup {<<[reference |-> RefPmid, supporting_text |-> l]>> : l \in TextLists}
    \cup {<<[reference |-> RefPmid, supporting_text |-> l[1]],
            [reference |-> RefUrl, supporting_text |-> l[2]]>> :
            l \in {m \in TextLists \X TextLists : Len(m[1]) + Len(m[2]) <= MaxTexts}}

\* ------------------------------- the tool validate_annotation_file

\* The sections of line 412 of simple_aurelian_mcp.py.
ToolSections ==
  <<"phenotypic_features", "inheritance", "clinical_course",
    "relevant_publications">>

FileTool == "simple_aurelian_mcp.validate_annotation_file"

\* The section the loop of line 414 is at.
AtSection == ToolSections[locals.pub]

SectionPresent == AtSection \in DOMAIN arguments.annotation_data

\* The annotation, or the publication, the loops of lines 423 and 458 are at.
AtAnnotation == arguments.annotation_data[AtSection][locals.annotation + 1]

\* One call of fetch_paper_text or fetch_url_text made for an entry.
FetchedFor(entry, content) ==
  [section |-> AtSection, annotation |-> locals.annotation + 1,
   entry |-> entry, content |-> content]

\* The result dict of lines 445-453.
FileDict(text, reference, paper_text) ==
  Dict({"hpo_id", "hpo_name", "text", "reference", "found", "confidence",
        "section"},
       text, reference, find_supporting_text_in_paper(text, paper_text).found,
       find_supporting_text_in_paper(text, paper_text).confidence, <<>>, "None")

\* Lines 458-494: one annotation of an HPO section.  The loop of lines
\* 467-472 only binds text and reference; the fetch of lines 475-480 runs once
\* after it, for the reference of the last entry, and the statements of lines
\* 482-494 follow the continue of line 480 in its block and never run.
FileHpoAnnotation ==
  /\ Running(FileTool)
  /\ locals.pub <= Len(ToolSections)
  /\ SectionPresent
  /\ AtSection # "relevant_publications"
  /\ locals.annotation < Len(arguments.annotation_data[AtSection])
  /\ LET supporting_texts == AtAnnotation.supporting_text
         last == Len(supporting_texts)
     IN  IF supporting_texts = <<>>
         THEN /\ locals' = [locals EXCEPT !.annotation = @ + 1]
              /\ UNCHANGED paper_cache
         ELSE IF StartsWith(supporting_texts[last].reference, PmidPrefix)
         THEN \E content \in PaperTexts(paper_cache, supporting_texts[last].reference) :
                /\ paper_cache' =
                     IF content = NoContent THEN paper_cache
                     ELSE CachePut(paper_cache, supporting_texts[last].reference,
                                   content)
                /\ locals' =
                     [locals EXCEPT
                        !.annotation = @ + 1,
                        !.fetches = Append(@, FetchedFor(last, content))]
         ELSE IF StartsWith(supporting_texts[last].reference, HttpPrefix)
         THEN /\ locals' =
                   [locals EXCEPT
                      !.annotation = @ + 1,
                      !.fetches =
                        Append(@, FetchedFor(last,
                                 fetch_url_text(supporting_texts[last].reference)))]
              /\ UNCHANGED paper_cache
         ELSE /\ locals' = [locals EXCEPT !.annotation = @ + 1]
              /\ UNCHANGED paper_cache
  /\ UNCHANGED <<tool, arguments, response>>
  /\ UNCHANGED <<matchVars, batchVars, textVars, relevanceVars,
                 identifierVars, raceVars, fetchVars, copyVars>>

\* Lines 428-455: one supporting text of a publication.
FilePublicationEntry ==
  /\ Running(FileTool)
  /\ locals.pub <= Len(ToolSections)
  /\ SectionPresent
  /\ AtSection = "relevant_publications"
  /\ locals.annotation < Len(arguments.annotation_data[AtSection])
  /\ locals.entry < Len(AtAnnotation.supporting_text)
  /\ LET entry == AtAnnotation.supporting_text[locals.entry + 1]
     IN  IF entry.text = <<>> \/ entry.reference = <<>>
         THEN /\ locals' = [locals EXCEPT !.entry = @ + 1]
              /\ UNCHANGED paper_cache
         ELSE IF StartsWith(entry.reference, PmidPrefix)
         THEN \E content \in PaperTexts(paper_cache, entry.reference) :
                /\ paper_cache' =
                     IF content = NoContent THEN paper_cache
                     ELSE CachePut(paper_cache, entry.reference, content)
                /\ locals' =
                     [locals EXCEPT
                        !.entry = @ + 1,
                        !.fetches =
                          Append(@, FetchedFor(locals.entry + 1, content)),
                        !.pub_results =
                          IF content = NoContent THEN @
                          ELSE Append(@, FileDict(entry.text, entry.reference,
                                                  content)),
                        !.all_validation_results =
                          IF content = NoContent THEN @
                          ELSE Append(@, FileDict(entry.text, entry.reference,
                                                  content))]
         ELSE IF StartsWith(entry.reference, HttpPrefix)
         THEN /\ locals' =
                   [locals EXCEPT
                      !.entry = @ + 1,
                      !.fetches =
                        Append(@, FetchedFor(locals.entry + 1,
                                             fetch_url_text(entry.reference)))]
              /\ UNCHANGED paper_cache
         ELSE /\ locals' = [locals EXCEPT !.entry = @ + 1]
              /\ UNCHANGED paper_cache
  /\ UNCHANGED <<tool, arguments, response>>
  /\ UNCHANGED <<matchVars, batchVars, textVars, relevanceVars,
                 identifierVars, raceVars, fetchVars, copyVars>>

\* The ends of the loops: a section that the file does not have (line 416),
\* a publication whose supporting texts are done (line 428), and a section
\* whose annotations are done, with its summary (lines 497-504).
FileLoopNext ==
  /\ Running(FileTool)
  /\ locals.pub <= Len(ToolSections)
  /\ IF ~SectionPresent
     THEN locals' = [locals EXCEPT !.pub = @ + 1]
     ELSE IF locals.annotation < Len(arguments.annotation_data[AtSection])
     THEN /\ AtSection = "relevant_publications"
          /\ locals.entry = Len(AtAnnotation.supporting_text)
          /\ locals' = [locals EXCEPT !.annotation = @ + 1, !.entry = 0]
     ELSE locals' =
            [locals EXCEPT
               !.pub = @ + 1,
               !.annotation = 0,
               !.entry = 0,
               !.pub_results = <<>>,
               !.results =
                 IF locals.pub_results = <<>> THEN @
                 ELSE Append(@, [section |-> AtSection,
                                 found |-> CountFound(locals.pub_results),
                                 total |-> Len(locals.pub_results)])]
  /\ UNCHANGED <<tool, arguments, paper_cache, response>>
  /\ UNCHANGED <<matchVars, batchVars, textVars, relevanceVars,
                 identifierVars, raceVars, fetchVars, copyVars>>

\* Lines 506-533: the totals; the divisions of lines 509 and 510 are guarded.
FileRespond ==
  /\ Running(FileTool)
  /\ locals.pub > Len(ToolSections)
  /\ response' =
       [kind |-> "response",
        total |-> Len(locals.all_validation_results),
        found |-> CountFound(locals.all_validation_results),
        percent |->
          IF Len(locals.all_validation_results) > 0
          THEN <<100 * CountFound(locals.all_validation_results),
                 Len(locals.all_validation_results)>>
          ELSE Zero,
        details |-> locals.results]
  /\ UNCHANGED <<tool, arguments, locals, paper_cache>>
  /\ UNCHANGED <<matchVars, batchVars, textVars, relevanceVars,
                 identifierVars, raceVars, fetchVars, copyVars>>

\* The supporting texts of an annotation of a file given to the tool are at
\* most this many.
MaxFileTexts == 1

\* The entries of a file given to the tool: a quotation with a PMID, with a
\* URL, and an entry without text.
ToolEntries ==
  {[text |-> QuoteFour, reference |-> RefPmid],
   [text |-> QuoteFour, reference |-> RefUrl],
   [text |-> <<>>, reference |-> RefPmid]}

FileTextLists == UNION {[1..k -> ToolEntries] : k \in 0..MaxFileTexts}

\* annotation_data with one HPO section of one annotation and the section
\* relevant_publications with one publication.
FileOf(section_name, hpo_texts, publication_texts) ==
  (section_name :> <<[reference |-> RefPmid, supporting_text |-> hpo_texts]>>)
    @@ ("relevant_publications" :>
          <<[reference |-> RefPmid, supporting_text |-> publication_texts]>>)

\* Besides those: an annotation with two supporting texts.
AnnotationFiles ==
  {FileOf(ToolSections[s], l1, l2) :
     s \in 1..3, l1 \in FileTextLists, l2 \in FileTextLists}
    \cup {FileOf("inheritance",
                 <<[text |-> QuoteFour, reference |-> RefPmid],
                   [text |-> QuoteFour, reference |-> RefPmid]>>, <<>>)}

HpoTools ==
  {"mcp_server.validate_hpo_annotation",
   "simple_aurelian_mcp.validate_hpo_annotation"}

InitMcp ==
  /\ MatchIdle
  /\ TextIdle
  /\ RelevanceIdle
  /\ IdentifierIdle
  /\ BatchIdle
  /\ RaceIdle
  /\ FetcherIdle
  /\ CopiesIdle
  /\ \/ /\ tool \in HpoTools
        /\ \E l \in TextLists :
             arguments = [NoArguments EXCEPT !.supporting_texts = l]
     \/ /\ tool = "simple_aurelian_mcp.validate_relevant_publications"
        /\ \E ps \in PublicationLists :
             arguments = [NoArguments EXCEPT !.publications = ps]
     \/ /\ tool = FileTool
        /\ \E ad \in AnnotationFiles :
             arguments = [NoArguments EXCEPT !.annotation_data = ad]
  /\ locals = NoLocals
  /\ paper_cache = {}
  /\ response = NoResponse

NextMcp ==
  \/ ServerHpoEntry
  \/ ServerHpoRespond
  \/ SimpleHpoEntry
  \/ SimpleHpoRespond
  \/ PublicationsEntry
  \/ PublicationsSummary
  \/ PublicationsRespond
  \/ FileHpoAnnotation
  \/ FilePublicationEntry
  \/ FileLoopNext
  \/ FileRespond

SpecMcp == InitMcp /\ [][NextMcp]_vars

\* ------------------------------------------ claims on the tool handlers

\* C9: no call of a validation handler ends in a fault: whatever the
\* arguments and whatever the fetches did, what the call gives back is a
\* response.
C9_NoFaultEscapes == response.kind # "fault"

\* ------------------------------------------- the text functions, applied

\* The code points of the texts: ASCII as itself, a curly quote as its name.
LeftDoubleQuote == "U+201C"
RightDoubleQuote == "U+201D"
LeftSingleQuote == "U+2018"
RightSingleQuote == "U+2019"

SmartQuotes ==
  {LeftDoubleQuote, RightDoubleQuote, LeftSingleQuote, RightSingleQuote}

\* Every text of at most this many characters of TextAlphabet is an input.
MaxTextLen == 3

TextAlphabet == {"a", "B", " ", "\n", LeftDoubleQuote}

ShortTexts == UNION {[1..n -> TextAlphabet] : n \in 0..MaxTextLen}

\*   , "'").REPLACE(
TripleQuotedUpper ==
  <<",", " ", "\"", "'", "\"", ")", ".", "R", "E", "P", "L", "A", "C", "E", "(">>

\* Besides the short texts: a text with the four curly quotes, the literal of
\* line 333 in lower case and in upper case, and texts with a tab, with
\* straight quotes and with a repeated word.
\*   <LDQ>a<RDQ> <LSQ>B<RSQ>      "\t Aa \"b\"  'c'\r\n"      "aa bb aa"
LongTexts ==
  {<<LeftDoubleQuote, "a", RightDoubleQuote, " ", LeftSingleQuote, "B",
     RightSingleQuote>>,
   TripleQuoted, TripleQuotedUpper,
   <<"\t", " ", "A", "a", " ", "\"", "b", "\"", " ", " ", "'", "c", "'",
     "\r", "\n">>,
   <<"a", "a", " ", "b", "b", " ", "a", "a">>}

Texts == ShortTexts \cup LongTexts

\* The second argument of calculate_similarity.
\*   ""   " "   "a"   "a B"   "B  a"   "bb aa"   "a <LDQ>"
OtherTexts ==
  {<<>>, <<" ">>, <<"a">>, <<"a", " ", "B">>, <<"B", " ", " ", "a">>,
   <<"b", "b", " ", "a", "a">>, <<"a", " ", LeftDoubleQuote>>}

InitText ==
  /\ MatchIdle
  /\ BatchIdle
  /\ McpIdle
  /\ RelevanceIdle
  /\ IdentifierIdle
  /\ RaceIdle
  /\ FetcherIdle
  /\ CopiesIdle
  /\ arg_text1 \in Texts
  /\ arg_text2 \in OtherTexts
  /\ normalized_text = NotCalled
  /\ renormalized_text = NotCalled
  /\ similarities = NotScored

\* normalize_text(text)
NormalizeText ==
  /\ normalized_text = NotCalled
  /\ normalized_text' = normalize_text(arg_text1)
  /\ UNCHANGED <<arg_text1, arg_text2, renormalized_text, similarities>>
  /\ UNCHANGED <<matchVars, batchVars, mcpVars, relevanceVars, identifierVars,
                 raceVars, fetchVars, copyVars>>

\* normalize_text applied to what normalize_text returned.
NormalizeAgain ==
  /\ normalized_text # NotCalled
  /\ renormalized_text = NotCalled
  /\ renormalized_text' = normalize_text(normalized_text)
  /\ UNCHANGED <<arg_text1, arg_text2, normalized_text, similarities>>
  /\ UNCHANGED <<matchVars, batchVars, mcpVars, relevanceVars, identifierVars,
                 raceVars, fetchVars, copyVars>>

\* calculate_similarity on the two texts in both orders, and on the first
\* text and itself.
CalculateSimilarity ==
  /\ similarities = NotScored
  /\ similarities' =
       [forward |-> calculate_similarity(arg_text1, arg_text2),
        backward |-> calculate_similarity(arg_text2, arg_text1),
        self |-> calculate_similarity(arg_text1, arg_text1)]
  /\ UNCHANGED <<arg_text1, arg_text2, normalized_text, renormalized_text>>
  /\ UNCHANGED <<matchVars, batchVars, mcpVars, relevanceVars, identifierVars,
                 raceVars, fetchVars, copyVars>>

NextText ==
  \/ NormalizeText
  \/ NormalizeAgain
  \/ CalculateSimilarity

SpecText == InitText /\ [][NextText]_vars

\* ------------------------------------------- claims on the text functions

IsUpper(c) == c \in DOMAIN UpperToLower

\* C11: normalize_text is total, and its result has no whitespace at either
\* end, no whitespace but single spaces between tokens, no uppercase letter
\* and none of the four curly quotes.
C11_NormalizeTextContract ==
  normalized_text # NotCalled =>
    /\ normalized_text \in Seq(STRING)
    /\ normalized_text # <<>> =>
         /\ Head(normalized_text) \notin Whitespace
         /\ normalized_text[Len(normalized_text)] \notin Whitespace
    /\ \A i \in 1..Len(normalized_text) :
         /\ normalized_text[i] \in Whitespace => normalized_text[i] = " "
         /\ i > 1 /\ normalized_text[i] = " " => normalized_text[i-1] # " "
         /\ ~IsUpper(normalized_text[i])
         /\ normalized_text[i] \notin SmartQuotes

\* C12: normalize_text is idempotent: applied to its own result it returns
\* that result.
C12_NormalizeIdempotent ==
  renormalized_text # NotCalled => renormalized_text = normalized_text

\* The maximal runs of non-whitespace characters of s.
TokensOf(s) ==
  {SubSeq(s, i, j) : <<i, j>> \in
     {p \in (1..Len(s)) \X (1..Len(s)) :
        /\ p[1] <= p[2]
        /\ \A k \in p[1]..p[2] : s[k] \notin Whitespace
        /\ p[1] = 1 \/ s[p[1] - 1] \in Whitespace
        /\ p[2] = Len(s) \/ s[p[2] + 1] \in Whitespace}}

Scored == similarities # NotScored

InUnitInterval(r) == r[2] > 0 /\ 0 <= r[1] /\ r[1] <= r[2]

\* C13 as stated: similarity(a, b) = similarity(b, a), 0 <= similarity(a, b)
\* <= 1, and similarity(a, a) = 1.0 for every non-empty a.
C13_SymmetricBounded_Original ==
  Scored =>
    /\ RatEQ(similarities.forward, similarities.backward)
    /\ InUnitInterval(similarities.forward)
    /\ arg_text1 # <<>> => RatEQ(similarities.self, One)

\* C13: similarity(a, b) = similarity(b, a), 0 <= similarity(a, b) <= 1, and
\* similarity(a, a) is 1.0 when a holds a non-whitespace character and 0.0
\* when it holds none.
C13_SymmetricBounded ==
  Scored =>
    /\ RatEQ(similarities.forward, similarities.backward)
    /\ InUnitInterval(similarities.forward)
    /\ RatEQ(similarities.self,
             IF \E i \in 1..Len(arg_text1) : arg_text1[i] \notin Whitespace
             THEN One ELSE Zero)

\* Two texts with word sets of different sizes were scored: 0.5 in both
\* orders, and 1.0 for the first text and itself.
C13_Witness ==
  /\ Scored
  /\ RatEQ(similarities.forward, <<1, 2>>)
  /\ RatEQ(similarities.self, One)
  /\ Cardinality(TokensOf(normalize_text(arg_text1)))
       # Cardinality(TokensOf(normalize_text(arg_text2)))

\* C14: calculate_similarity(a, b) is |A \cap B| / |A \cup B| for the sets A and
\* B of the whitespace-separated tokens of the normalized texts, a repeated
\* word counting once, and 0.0 when A or B is empty.
C14_JaccardOfTokenSets ==
  Scored =>
    LET A == TokensOf(normalize_text(arg_text1))
        B == TokensOf(normalize_text(arg_text2))
    IN  IF A = {} \/ B = {}
        THEN similarities.forward = <<0, 1>>
        ELSE /\ similarities.forward[1] = Cardinality(A \cap B)
             /\ similarities.forward[2] = Cardinality(A \cup B)

\* A text that repeats a word was scored against a text sharing that word.
C14_Witness ==
  /\ Scored
  /\ Len(SplitWords(normalize_text(arg_text1)))
       > Cardinality(TokensOf(normalize_text(arg_text1)))
  /\ similarities.forward = <<1, 2>>

\* ------------------------------------------------ the relevance scorer

\* The disease names given to TextValidator.__init__:
\*   ""   "  "   "abc"   "Abc Def"   "-Abc"   "ab Disease"   "Abc def_ghi,jkl of"
DiseaseNames ==
  {<<>>, <<" ", " ">>, <<"a", "b", "c">>,
   <<"A", "b", "c", " ", "D", "e", "f">>,
   <<"-", "A", "b", "c">>,
   <<"a", "b", " ", "D", "i", "s", "e", "a", "s", "e">>,
   <<"A", "b", "c", " ", "d", "e", "f", "_", "g", "h", "i", ",", "j", "k",
     "l", " ", "o", "f">>}

\*   ""   "M:1"
DiseaseIds == {<<>>, <<"M", ":", "1">>}

\* The answers of the Monarch API: a failure, or the values of the synonyms
\* and the name of the reply:  none;  "lmn";  "Big heart " and "xyz";
\* "the " and "".
MonarchReplies ==
  {[kind |-> "error", values |-> {}],
   [kind |-> "ok", values |-> {}],
   [kind |-> "ok", values |-> {<<"l", "m", "n">>}],
   [kind |-> "ok",
    values |-> {<<"B", "i", "g", " ", "h", "e", "a", "r", "t", " ">>,
                <<"x", "y", "z">>}],
   [kind |-> "ok", values |-> {<<"t", "h", "e", " ">>, <<>>}]}

\*   ""   "abcd"   "zzz"   "Abc\n DEF big"   "x big heart"
Publications ==
  {<<>>, <<"a", "b", "c", "d">>, <<"z", "z", "z">>,
   <<"A", "b", "c", "\n", " ", "D", "E", "F", " ", "b", "i", "g">>,
   <<"x", " ", "b", "i", "g", " ", "h", "e", "a", "r", "t">>}

InitRelevance ==
  /\ MatchIdle
  /\ BatchIdle
  /\ McpIdle
  /\ TextIdle
  /\ IdentifierIdle
  /\ RaceIdle
  /\ FetcherIdle
  /\ CopiesIdle
  /\ disease \in [disease_name : DiseaseNames, disease_id : DiseaseIds]
  /\ monarch_reply \in MonarchReplies
  /\ text_validator = NoValidator
  /\ publication \in Publications
  /\ relevance_result = NotChecked

\* TextValidator.__init__
Construct ==
  /\ ~text_validator.built
  /\ text_validator' =
       [disease_name |-> disease.disease_name,
        disease_keywords |->
          extract_disease_keywords(
            disease.disease_name,
            fetch_disease_synonyms(disease.disease_id, monarch_reply)),
        built |-> TRUE]
  /\ UNCHANGED <<disease, monarch_reply, publication, relevance_result>>
  /\ UNCHANGED <<matchVars, batchVars, mcpVars, textVars, identifierVars,
                 raceVars, fetchVars, copyVars>>

\* One call of check_disease_relevance on the built validator.
CheckDiseaseRelevance ==
  /\ text_validator.built
  /\ relevance_result = NotChecked
  /\ relevance_result' =
       check_disease_relevance(text_validator.disease_keywords,
                               text_validator.disease_name, publication)
  /\ UNCHANGED <<disease, monarch_reply, text_validator, publication>>
  /\ UNCHANGED <<matchVars, batchVars, mcpVars, textVars, identifierVars,
                 raceVars, fetchVars, copyVars>>

NextRelevance ==
  \/ Construct
  \/ CheckDiseaseRelevance

SpecRelevance == InitRelevance /\ [][NextRelevance]_vars

\* ------------------------------------------- claims on the relevance scorer

Built == text_validator.built

Checked == relevance_result # NotChecked

Keywords == text_validator.disease_keywords

\* The disease name of the validator, lowercased.
FullName == Lower(text_validator.disease_name)

\* pat is s[i+1..i+Len(pat)] for some i.
Contains(s, pat) ==
  \E i \in 0..(Len(s) - Len(pat)) : SubSeq(s, i + 1, i + Len(pat)) = pat

\* The keywords that the normalized publication contains.
Hits == {k \in Keywords : Contains(normalize_text(publication), k)}

\* The synonyms the lookup gave the constructor.
Synonyms == fetch_disease_synonyms(disease.disease_id, monarch_reply)

\* The maximal runs of s of characters outside seps.
RunsOutside(s, seps) ==
  {SubSeq(s, p[1], p[2]) : p \in
     {q \in (1..Len(s)) \X (1..Len(s)) :
        /\ q[1] <= q[2]
        /\ \A k \in q[1]..q[2] : s[k] \notin seps
        /\ q[1] = 1 \/ s[q[1] - 1] \in seps
        /\ q[2] = Len(s) \/ s[q[2] + 1] \in seps}}

\* C15: a validator built with an empty disease name and no synonyms has no
\* keywords, and without keywords check_disease_relevance returns
\* (True, 1.0) for every document.
C15_EmptyKeywordsRelevant ==
  /\ (/\ Built
      /\ disease.disease_name = <<>>
      /\ \/ disease.disease_id = <<>>
         \/ monarch_reply.kind # "ok"
         \/ \A v \in monarch_reply.values : v = <<>>)
       => Keywords = {}
  /\ (Checked /\ Keywords = {}) => relevance_result = <<"True", <<1, 1>>>>

\* The empty document was checked by a validator without keywords.
C15_Witness ==
  /\ Checked
  /\ disease.disease_name = <<>>
  /\ Keywords = {}
  /\ publication = <<>>

\* C16: with keywords, and a document in which the lowercased disease name
\* does not occur, the score is the share of the keywords that occur in the
\* normalized document as substrings, and is_relevant is  score >= 0.2 .
C16_KeywordScore ==
  (/\ Checked
   /\ Keywords # {}
   /\ ~Contains(normalize_text(publication), FullName))
    => /\ relevance_result[2] = <<Cardinality(Hits), Cardinality(Keywords)>>
       /\ relevance_result[1] =
            IF 5 * Cardinality(Hits) >= Cardinality(Keywords)
            THEN "True" ELSE "False"

\* One keyword of five occurs, inside a longer word of the document, and the
\* document is relevant with score 0.2.
C16_Witness ==
  /\ Checked
  /\ ~Contains(normalize_text(publication), FullName)
  /\ Cardinality(Keywords) = 5
  /\ Cardinality(Hits) = 1
  /\ Hits \cap TokensOf(normalize_text(publication)) = {}
  /\ relevance_result = <<"True", <<1, 5>>>>

\* The share of the keywords that occur; 1.0 without keywords (C15).
KeywordScore ==
  IF Keywords = {} THEN <<1, 1>>
  ELSE <<Cardinality(Hits), Cardinality(Keywords)>>

OverrideResult ==
  <<"True", IF RatGE(KeywordScore, <<4, 5>>) THEN KeywordScore ELSE <<4, 5>>>>

\* C17 as stated: whenever the lowercased disease name occurs as a substring
\* of the normalized document, the result is relevant with score
\* max(keyword score, 0.8); and every score lies in [0, 1].
C17_FullNameOverride_Original ==
  Checked =>
    /\ Contains(normalize_text(publication), FullName)
         => relevance_result = OverrideResult
    /\ InUnitInterval(relevance_result[2])

\* C17: whenever the disease name is not empty and its lowercased form occurs
\* as a substring of the normalized document, the result is relevant with
\* score max(keyword score, 0.8); and every score lies in [0, 1].
C17_FullNameOverride ==
  Checked =>
    /\ (/\ text_validator.disease_name # <<>>
        /\ Contains(normalize_text(publication), FullName))
         => relevance_result = OverrideResult
    /\ InUnitInterval(relevance_result[2])

\* The name occurs in a document that holds one keyword of five: the score
\* is raised from 0.2 to 0.8.
C17_Witness ==
  /\ Checked
  /\ text_validator.disease_name # <<>>
  /\ Contains(normalize_text(publication), FullName)
  /\ KeywordScore = <<1, 5>>
  /\ relevance_result = <<"True", <<4, 5>>>>

\* The lowercased disease name, when the name is not empty.
NameKeyword ==
  IF disease.disease_name = <<>> THEN {} ELSE {Lower(disease.disease_name)}

\* The tokens of the lowercased disease name and synonyms between runs of
\* [,\s\-_] that are longer than 2 characters and no stop words.
TokenKeywords ==
  {k \in UNION {RunsOutside(Lower(src), KeywordSeparators) :
                  src \in {disease.disease_name} \cup Synonyms} :
     Len(k) > 2 /\ k \notin stop_words}

\* C18 as stated: the keyword set is exactly the lowercased disease name (when
\* not empty) and the kept tokens of the name and of the synonyms.
C18_KeywordSet_Original ==
  Built => Keywords = NameKeyword \cup TokenKeywords

\* C18: the keyword set is exactly the lowercased disease name (when not
\* empty), every synonym the lookup returned, as a whole, and the kept tokens
\* of the name and of the synonyms.
C18_KeywordSet ==
  Built => Keywords = NameKeyword \cup Synonyms \cup TokenKeywords

\* A validator built from a name with a stop word and a two-letter word and
\* from a synonym of two words.
C18_Witness ==
  /\ Built
  /\ \E w \in RunsOutside(FullName, KeywordSeparators) : w \in stop_words
  /\ \E w \in RunsOutside(FullName, KeywordSeparators) : Len(w) <= 2
  /\ \E syn \in Synonyms : syn \notin TokenKeywords
  /\ TokenKeywords # {}

\* ------------------------------------------- the identifier validator

\* The calls of validate_identifier of one run are at most this many.
MaxCalls == 2

\*   "Gene panel"   "the"
MethodNames ==
  {<<"G", "e", "n", "e", " ", "p", "a", "n", "e", "l">>, <<"t", "h", "e">>}

\*   "DOI:10.1/x"   "10.1/x"   "DOI:10.2/y"
DoiIds ==
  {<<"D", "O", "I", ":", "1", "0", ".", "1", "/", "x">>,
   <<"1", "0", ".", "1", "/", "x">>,
   <<"D", "O", "I", ":", "1", "0", ".", "2", "/", "y">>}

\*   ""   "null"   "NuLL"   "LOINC:1"   "doi:10.1/x"   " 10.1/x"
OtherIds ==
  {<<>>, NullId, <<"N", "u", "L", "L">>, MethodLoinc,
   <<"d", "o", "i", ":", "1", "0", ".", "1", "/", "x">>,
   <<" ", "1", "0", ".", "1", "/", "x">>}

\* The answers of the CrossRef request: 200 with the title "A gene Panel",
\* 200 with the title "Gene test", 200 without a title, 404, and an
\* exception.
LookupReplies ==
  {[kind |-> "status", status |-> 200,
    title |-> <<"A", " ", "g", "e", "n", "e", " ", "P", "a", "n", "e", "l">>],
   [kind |-> "status", status |-> 200,
    title |-> <<"G", "e", "n", "e", " ", "t", "e", "s", "t">>],
   [kind |-> "status", status |-> 200, title |-> NoContent],
   [kind |-> "status", status |-> 404, title |-> NoContent],
   [kind |-> "raise", status |-> 0, title |-> NoContent]}

\* No request was made.
NoLookup == [kind |-> "none", status |-> 0, title |-> NoContent]

InitIdentifier ==
  /\ MatchIdle
  /\ BatchIdle
  /\ McpIdle
  /\ TextIdle
  /\ RelevanceIdle
  /\ RaceIdle
  /\ FetcherIdle
  /\ CopiesIdle
  /\ identifier_cache = {}
  /\ identifier_log = <<>>

\* One entry of the log of calls.
Logged(method_name, method_id, reply, result) ==
  [method_name |-> method_name, method_id |-> method_id, reply |-> reply,
   result |-> result, cache_before |-> identifier_cache]

\* validate_identifier for an identifier that validate_doi is not called for:
\* lines 145-154 and 164-171.
IdentifierNotValidated ==
  /\ Len(identifier_log) < MaxCalls
  /\ \E method_name \in MethodNames, method_id \in OtherIds \cup DoiIds :
       /\ ~Validated(method_id)
       /\ identifier_log' =
            Append(identifier_log,
                   Logged(method_name, method_id, NoLookup,
                          validate_identifier(method_name, method_id)))
  /\ UNCHANGED identifier_cache
  /\ UNCHANGED <<matchVars, batchVars, mcpVars, textVars, relevanceVars,
                 raceVars, fetchVars, copyVars>>

\* validate_identifier for a DOI that is in the cache: lines 157-163, 57-66.
DoiFromCache ==
  /\ Len(identifier_log) < MaxCalls
  /\ \E method_name \in MethodNames, method_id \in OtherIds \cup DoiIds :
       /\ Validated(method_id)
       /\ Cached(identifier_cache, DoiOf(method_id))
       /\ identifier_log' =
            Append(identifier_log,
                   Logged(method_name, method_id, NoLookup,
                          CachedDoi(method_name, DoiOf(method_id),
                                    CacheGet(identifier_cache, DoiOf(method_id)))))
  /\ UNCHANGED identifier_cache
  /\ UNCHANGED <<matchVars, batchVars, mcpVars, textVars, relevanceVars,
                 raceVars, fetchVars, copyVars>>

\* validate_identifier for a DOI that is not in the cache: lines 157-163 and
\* 68-113, with the request of line 73.
DoiLookup ==
  /\ Len(identifier_log) < MaxCalls
  /\ \E method_name \in MethodNames, method_id \in OtherIds \cup DoiIds,
        reply \in LookupReplies :
       /\ Validated(method_id)
       /\ ~Cached(identifier_cache, DoiOf(method_id))
       /\ identifier_cache' =
            CachePut(identifier_cache, DoiOf(method_id), EntryOfReply(reply))
       /\ identifier_log' =
            Append(identifier_log,
                   Logged(method_name, method_id, reply,
                          LookedUpDoi(method_name, DoiOf(method_id), reply)))
  /\ UNCHANGED <<matchVars, batchVars, mcpVars, textVars, relevanceVars,
                 raceVars, fetchVars, copyVars>>

NextIdentifier ==
  \/ IdentifierNotValidated
  \/ DoiFromCache
  \/ DoiLookup

SpecIdentifier == InitIdentifier /\ [][NextIdentifier]_vars

\* ------------------------------------- claims on the identifier validator

\* The cache after the i-th call.
CacheAfter(i) ==
  IF i < Len(identifier_log) THEN identifier_log[i + 1].cache_before
  ELSE identifier_cache

\* The i-th call made the request.
LookedUp(i) == identifier_log[i].reply # NoLookup

\* The identifier of the i-th call has the shape of a DOI: the prefix "DOI:",
\* stripped, or the prefix "10.".
HasPrefix(id, prefix) ==
  Len(id) >= Len(prefix) /\ \A k \in 1..Len(prefix) : id[k] = prefix[k]

DoiShaped(i) ==
  \/ HasPrefix(identifier_log[i].method_id, <<"D", "O", "I", ":">>)
  \/ HasPrefix(identifier_log[i].method_id, <<"1", "0", ".">>)

StrippedDoi(i) ==
  LET id == identifier_log[i].method_id
  IN  IF HasPrefix(id, <<"D", "O", "I", ":">>)
      THEN SubSeq(id, 5, Len(id)) ELSE id

\* The answer to the request for the DOI of the i-th call: that of the first
\* call of the run with this DOI.
AnswerFor(i) ==
  LET first == CHOOSE j \in 1..i :
                 /\ DoiShaped(j) /\ StrippedDoi(j) = StrippedDoi(i)
                 /\ \A k \in 1..(j - 1) :
                      ~(DoiShaped(k) /\ StrippedDoi(k) = StrippedDoi(i))
  IN  identifier_log[first].reply

\* C19: every call with a DOI-shaped identifier, the first and every repeated
\* one, yields valid with the retrieved title and a computed title match
\* after a successful lookup, and invalid with an error message and no title
\* match after a failed one.
C19_DoiResultEveryCall ==
  \A i \in 1..Len(identifier_log) :
    DoiShaped(i) =>
      LET r == identifier_log[i].result
          answer == AnswerFor(i)
      IN  IF answer.kind = "status" /\ answer.status = 200
          THEN /\ r.valid
               /\ r.retrieved_title = answer.title
               /\ r.title_match \in {"True", "False"}
               /\ r.error = "None"
          ELSE /\ ~r.valid
               /\ r.error # "None"
               /\ r.title_match = "None"
               /\ r.retrieved_title = NoContent

\* C20: a call with an identifier that starts with neither "DOI:" nor "10."
\* makes no request, leaves the cache as it was and returns valid without
\* title match: without error for an empty identifier and for "null" in any
\* letter case, with the advisory message otherwise.  Only calls with a
\* DOI-shaped identifier make the request.
C20_LookupOnlyForDoi ==
  \A i \in 1..Len(identifier_log) :
    LET id == identifier_log[i].method_id
        r == identifier_log[i].result
    IN  /\ LookedUp(i) => DoiShaped(i)
        /\ ~DoiShaped(i) =>
             /\ ~LookedUp(i)
             /\ CacheAfter(i) = identifier_log[i].cache_before
             /\ r.valid
             /\ r.title_match = "None"
             /\ r.retrieved_title = NoContent
             /\ r.method_id = id
             /\ r.error = IF id = <<>> \/ Lower(id) = <<"n", "u", "l", "l">>
                          THEN "None"
                          ELSE "Identifier type not validated (no API available)"

\* After a lookup filled the cache, "doi:10.1/x" was validated.
C20_Witness ==
  /\ Len(identifier_log) = 2
  /\ LookedUp(1)
  /\ identifier_log[2].method_id =
       <<"d", "o", "i", ":", "1", "0", ".", "1", "/", "x">>
  /\ identifier_log[2].result.valid
  /\ identifier_cache # {}

\* The lowercased word tokens of a text that are not stop words.
TitleTokens(s) == RunsOutside(Lower(s), NonWordChars) \ title_stop_words

\* The i-th call compared the method name with a retrieved title.
TitleCompared(i) ==
  /\ DoiShaped(i)
  /\ AnswerFor(i).kind = "status"
  /\ AnswerFor(i).status = 200
  /\ AnswerFor(i).title # NoContent

\* The tokens of the method name of the i-th call found in the title.
SharedTokens(i) ==
  TitleTokens(identifier_log[i].method_name) \cap TitleTokens(AnswerFor(i).title)

\* C21: with M and T the lowercased word-token sets of the method name and
\* of the retrieved title without the stop words, the title match is false
\* when M is empty and is otherwise true exactly when |M \cap T| / |M| is
\* strictly above one half.
C21_TitleOverlapStrict ==
  \A i \in 1..Len(identifier_log) :
    TitleCompared(i) =>
      LET M == TitleTokens(identifier_log[i].method_name)
      IN  identifier_log[i].result.title_match =
            IF M = {} THEN "False"
            ELSE IF 2 * Cardinality(SharedTokens(i)) > Cardinality(M)
            THEN "True" ELSE "False"

\* "Gene panel" was compared with "Gene test": one of two tokens, a ratio of
\* exactly one half, and no match.
C21_Witness ==
  \E i \in 1..Len(identifier_log) :
    /\ TitleCompared(i)
    /\ Cardinality(TitleTokens(identifier_log[i].method_name)) = 2
    /\ Cardinality(SharedTokens(i)) = 1
    /\ identifier_log[i].result.title_match = "False"

\* C22: in a sequence of calls on one validator the request is made at most
\* once for each DOI, the "DOI:"-prefixed form and the bare form counted as
\* one, whether the first request was answered 200, answered another
\* status or raised.
C22_LookupOncePerDoi ==
  \A i, j \in 1..Len(identifier_log) :
    (i < j /\ DoiShaped(i) /\ DoiShaped(j) /\ StrippedDoi(i) = StrippedDoi(j))
      => ~LookedUp(j)

\* The request for "DOI:10.1/x" raised, and the later call with "10.1/x"
\* made no request.
C22_Witness ==
  /\ Len(identifier_log) = 2
  /\ identifier_log[1].method_id =
       <<"D", "O", "I", ":", "1", "0", ".", "1", "/", "x">>
  /\ identifier_log[1].reply.kind = "raise"
  /\ identifier_log[2].method_id = <<"1", "0", ".", "1", "/", "x">>
  /\ ~LookedUp(2)

\* ---------------------------------------- coroutines that share a cache

\* The coroutines that run at the same time are this many.
MaxTasks == 2

\*   "10.1/x"
RaceDoi == <<"1", "0", ".", "1", "/", "x">>

\*   "Gene panel"
RaceMethod == <<"G", "e", "n", "e", " ", "p", "a", "n", "e", "l">>

\* The operations a coroutine runs.
RaceOps == {"validate_doi", "fetch_pmid_content"}

\* A coroutine has not returned.
Pending == <<"pending">>

\* A coroutine before its first step.  joined is the set of coroutines that
\* were waiting for the answer for the same key when this one passed the
\* cache check.
NewTask(op) ==
  [op |-> op, key |-> IF op = "validate_doi" THEN RaceDoi ELSE RefPmid,
   pc |-> "start", called |-> FALSE, joined |-> {}, result |-> Pending]

\* The coroutines other than t that wait for the answer for the key of t.
InFlight(t) ==
  {u \in DOMAIN tasks \ {t} :
     /\ tasks[u].op = tasks[t].op
     /\ tasks[u].key = tasks[t].key
     /\ tasks[u].pc = "awaiting"}

InitRace ==
  /\ MatchIdle
  /\ BatchIdle
  /\ McpIdle
  /\ TextIdle
  /\ RelevanceIdle
  /\ IdentifierIdle
  /\ FetcherIdle
  /\ CopiesIdle
  /\ tasks \in [1..MaxTasks -> {NewTask(op) : op \in RaceOps}]
  /\ validator_cache = {}
  /\ fetcher_cache = {}

\* validate_doi up to its await: the cache check of lines 57-66 and the
\* request of line 73 handed to a thread.
ValidateDoiEnter ==
  /\ \E t \in DOMAIN tasks :
       /\ tasks[t].op = "validate_doi"
       /\ tasks[t].pc = "start"
       /\ tasks' =
            IF Cached(validator_cache, tasks[t].key)
            THEN [tasks EXCEPT
                    ![t].pc = "done",
                    ![t].result =
                      CachedDoi(RaceMethod, tasks[t].key,
                                CacheGet(validator_cache, tasks[t].key))]
            ELSE [tasks EXCEPT ![t].pc = "awaiting", ![t].called = TRUE,
                               ![t].joined = InFlight(t)]
  /\ UNCHANGED <<validator_cache, fetcher_cache>>
  /\ UNCHANGED <<matchVars, batchVars, mcpVars, textVars, relevanceVars,
                 identifierVars, fetchVars, copyVars>>

\* validate_doi from the answer of the request on: lines 75-113.
ValidateDoiResume ==
  /\ \E t \in DOMAIN tasks, reply \in LookupReplies :
       /\ tasks[t].op = "validate_doi"
       /\ tasks[t].pc = "awaiting"
       /\ validator_cache' =
            CachePut(validator_cache, tasks[t].key, EntryOfReply(reply))
       /\ tasks' =
            [tasks EXCEPT
               ![t].pc = "done",
               ![t].result = LookedUpDoi(RaceMethod, tasks[t].key, reply)]
  /\ UNCHANGED fetcher_cache
  /\ UNCHANGED <<matchVars, batchVars, mcpVars, textVars, relevanceVars,
                 identifierVars, fetchVars, copyVars>>

\* fetch_pmid_content up to its await: the cache check of lines 182-183 and
\* get_pmid_text handed to a thread (line 187).
FetchPmidEnter ==
  /\ \E t \in DOMAIN tasks :
       /\ tasks[t].op = "fetch_pmid_content"
       /\ tasks[t].pc = "start"
       /\ tasks' =
            IF Cached(fetcher_cache, tasks[t].key)
            THEN [tasks EXCEPT
                    ![t].pc = "done",
                    ![t].result = CacheGet(fetcher_cache, tasks[t].key)]
            ELSE [tasks EXCEPT ![t].pc = "awaiting", ![t].called = TRUE,
                               ![t].joined = InFlight(t)]
  /\ UNCHANGED <<validator_cache, fetcher_cache>>
  /\ UNCHANGED <<matchVars, batchVars, mcpVars, textVars, relevanceVars,
                 identifierVars, fetchVars, copyVars>>

\* fetch_pmid_content from the answer of get_pmid_text on: lines 188-197.
FetchPmidResume ==
  /\ \E t \in DOMAIN tasks, reply \in PmidReplies(Bodies) :
       /\ tasks[t].op = "fetch_pmid_content"
       /\ tasks[t].pc = "awaiting"
       /\ fetcher_cache' =
            IF PmidContent(reply) # NoContent
            THEN CachePut(fetcher_cache, tasks[t].key, PmidContent(reply))
            ELSE fetcher_cache
       /\ tasks' = [tasks EXCEPT ![t].pc = "done",
                                 ![t].result = PmidContent(reply)]
  /\ UNCHANGED validator_cache
  /\ UNCHANGED <<matchVars, batchVars, mcpVars, textVars, relevanceVars,
                 identifierVars, fetchVars, copyVars>>

NextRace ==
  \/ ValidateDoiEnter
  \/ ValidateDoiResume
  \/ FetchPmidEnter
  \/ FetchPmidResume

SpecRace == InitRace /\ [][NextRace]_vars

\* ------------------------------------- claims on the shared caches

\* What a coroutine resolved its key to.
Resolved(t) ==
  IF tasks[t].op = "validate_doi"
  THEN <<tasks[t].result.valid, tasks[t].result.retrieved_title,
         tasks[t].result.error>>
  ELSE tasks[t].result

\* C23: a coroutine that passes the cache check while another one waits
\* for the answer for the same key does not call the external source, and
\* both return the same resolved value or the same failure.
C23_SingleFlight ==
  \A t \in DOMAIN tasks : \A u \in tasks[t].joined :
    /\ ~tasks[t].called
    /\ (tasks[t].pc = "done" /\ tasks[u].pc = "done")
         => Resolved(t) = Resolved(u)

\* C24: once a key is in IdentifierValidator.cache or ContentFetcher.cache,
\* no step removes it or replaces its value.
AppendOnly(c, d) ==
  \A e \in c : Cached(d, e[1]) /\ CacheGet(d, e[1]) = e[2]

C24_AppendOnly ==
  [][/\ AppendOnly(validator_cache, validator_cache')
     /\ AppendOnly(fetcher_cache, fetcher_cache')]_vars

\* ------------------------------------- the context of an exact match

\* The offsets (from 0) at which pat occurs in s.
Occurrences(pat, s) ==
  {k \in 0..(Len(s) - Len(pat)) : SubSeq(s, k + 1, k + Len(pat)) = pat}

\* The document has no leading whitespace and no whitespace run longer than
\* one character.
SingleSpaced(s) ==
  /\ s = <<>> \/ s[1] \notin Whitespace
  /\ \A k \in 1..(Len(s) - 1) : ~(s[k] \in Whitespace /\ s[k + 1] \in Whitespace)

\* C25: on the exact-match path the context is the original document sliced
\* from max(0, off - 100) to min(len(document), off + len(quotation) + 100)
\* and stripped, off being the first occurrence of the normalized quotation
\* in the normalized document; when the document has no leading whitespace
\* and no whitespace run longer than one character, the normalized context
\* contains the normalized quotation.
C25_ExactContextHoldsMatch ==
  (Called /\ Occurrences(normalize_text(quotation), normalize_text(document)) # {})
    => LET offs == Occurrences(normalize_text(quotation), normalize_text(document))
           off == CHOOSE k \in offs : \A j \in offs : k <= j
           from == IF off > ContextRadius THEN off - ContextRadius ELSE 0
           upto == IF off + Len(quotation) + ContextRadius < Len(document)
                   THEN off + Len(quotation) + ContextRadius ELSE Len(document)
       IN  /\ match.context = Strip(SubSeq(document, from + 1, upto))
           /\ SingleSpaced(document)
                => Occurrences(normalize_text(quotation),
                               normalize_text(match.context)) # {}

\* ------------------------------------------------------- the PMIDFetcher

\* The calls of fetch_abstract of one run are at most this many.
MaxFetches == 3

\*   "1"
CleanPmid == <<"1">>

\* The arguments of fetch_abstract: "PMID:1" and "1".
Pmids == {RefPmid, CleanPmid}

\* _get_cache_file: the file name is made of the pmid without "PMID:".
get_cache_file(pmid) == Replace(pmid, PmidPrefix, <<>>)

\* content.split('\n'), without the empty lines (the loop of line 85 skips
\* them).
LinesOf(content) ==
  LET starts == {i \in 1..Len(content) :
                   content[i] # "\n" /\ (i = 1 \/ content[i-1] = "\n")}
      ends == {j \in 1..Len(content) :
                 content[j] # "\n" /\ (j = Len(content) \/ content[j+1] = "\n")}
      EndOf(i) == CHOOSE j \in ends : j >= i /\ \A k \in ends : k >= i => j <= k
  IN  Concat([i \in 1..Len(content) |->
                IF i \in starts THEN <<SubSeq(content, i, EndOf(i))>> ELSE <<>>])

\* The loop of lines 85-90 from line i on: the title is the first line with a
\* full stop and more than 20 characters, the abstract is made of the other
\* lines of more than 30 characters.
RECURSIVE ParseLines(_, _, _, _)
ParseLines(lines, i, title, abstract) ==
  IF i > Len(lines) THEN [title |-> Strip(title), abstract |-> Strip(abstract)]
  ELSE IF \/ Strip(lines[i]) = <<>>
          \/ StartsWith(lines[i], <<"1", ".">>)
          \/ StartsWith(lines[i], PmidPrefix)
  THEN ParseLines(lines, i + 1, title, abstract)
  ELSE IF title = <<>> /\ IsSubstring(<<".">>, lines[i]) /\ Len(lines[i]) > 20
  THEN ParseLines(lines, i + 1, Strip(lines[i]), abstract)
  ELSE IF Len(lines[i]) > 30
  THEN ParseLines(lines, i + 1, title, abstract \o Strip(lines[i]) \o <<" ">>)
  ELSE ParseLines(lines, i + 1, title, abstract)

\* The dict of lines 92-98, without fetched_at (a reading of the clock).
AbstractData(pmid, content) ==
  [title |-> ParseLines(LinesOf(content), 1, <<>>, <<>>).title,
   abstract |-> ParseLines(LinesOf(content), 1, <<>>, <<>>).abstract,
   full_text |-> content, pmid |-> pmid]

\* A cache file that json.load cannot read.
Unreadable == [title |-> <<>>, abstract |-> <<>>, full_text |-> <<>>,
               pmid |-> <<"unreadable">>]

\* None where a dict is expected.
NoAbstract == [title |-> <<>>, abstract |-> <<>>, full_text |-> <<>>,
               pmid |-> <<"None">>]

\* _load_from_cache: the data of the file, None when there is no file or the
\* file cannot be read.
load_from_cache(pmid) ==
  IF Cached(cache_dir, get_cache_file(pmid))
       /\ CacheGet(cache_dir, get_cache_file(pmid)) # Unreadable
  THEN CacheGet(cache_dir, get_cache_file(pmid))
  ELSE NoAbstract

\*   "1. J. 2020\naa bb ee cc dd. aa bb cc ee!\naa bb ee cc dd. aa bb cc ee! aa ee ff gg.\nPMID: 1"
AbstractText ==
  <<"1", ".", " ", "J", ".", " ", "2", "0", "2", "0", "\n">>
    \o Strip(SentBoundary \o SentSixty) \o <<"\n">>
    \o Strip(SentBoundary \o SentSixty \o SentLow) \o <<"\n">>
    \o <<"P", "M", "I", "D", ":", " ", "1">>

\* What requests.get and raise_for_status can do: answer with a text (a
\* record of PubMed, the text "ERROR x", blanks), or raise.
AbstractReplies ==
  {[kind |-> "text", body |-> <<" ">> \o AbstractText \o <<"\n">>],
   [kind |-> "text", body |-> <<"E", "R", "R", "O", "R", " ", "x">>],
   [kind |-> "text", body |-> <<" ", "\n">>],
   [kind |-> "raise", body |-> <<>>]}

\* The reply is one that lines 79-105 make a result of.
Usable(reply) ==
  /\ reply.kind = "text"
  /\ Strip(reply.body) # <<>>
  /\ ~StartsWith(Strip(reply.body), <<"E", "R", "R", "O", "R">>)

\* The cache directory at construction: empty, or with a file for PMID 1
\* that holds a result or cannot be read.
InitFetcher ==
  /\ MatchIdle
  /\ BatchIdle
  /\ McpIdle
  /\ TextIdle
  /\ RelevanceIdle
  /\ IdentifierIdle
  /\ RaceIdle
  /\ CopiesIdle
  /\ abstract_cache = {}
  /\ cache_dir \in {{}, {<<CleanPmid, AbstractData(RefPmid, AbstractText)>>},
                    {<<CleanPmid, Unreadable>>}}
  /\ fetch_log = <<>>

\* One entry of the log of calls.
Fetched(pmid, steps, result) ==
  [pmid |-> pmid, steps |-> steps, result |-> result]

\* fetch_abstract for a pmid of the memory cache: lines 53-54.
FetchFromMemory ==
  /\ Len(fetch_log) < MaxFetches
  /\ \E pmid \in Pmids :
       /\ Cached(abstract_cache, pmid)
       /\ fetch_log' =
            Append(fetch_log,
                   Fetched(pmid, <<"memory">>, CacheGet(abstract_cache, pmid)))
  /\ UNCHANGED <<abstract_cache, cache_dir>>
  /\ UNCHANGED <<matchVars, batchVars, mcpVars, textVars, relevanceVars,
                 identifierVars, raceVars, copyVars>>

\* fetch_abstract for a pmid with a readable cache file: lines 53-60.
FetchFromFile ==
  /\ Len(fetch_log) < MaxFetches
  /\ \E pmid \in Pmids :
       /\ ~Cached(abstract_cache, pmid)
       /\ load_from_cache(pmid) # NoAbstract
       /\ abstract_cache' = CachePut(abstract_cache, pmid, load_from_cache(pmid))
       /\ fetch_log' =
            Append(fetch_log,
                   Fetched(pmid, <<"memory", "file">>, load_from_cache(pmid)))
  /\ UNCHANGED cache_dir
  /\ UNCHANGED <<matchVars, batchVars, mcpVars, textVars, relevanceVars,
                 identifierVars, raceVars, copyVars>>

\* fetch_abstract past both caches: lines 53-112.  A usable reply is cached
\* in memory and, when the file can be written, in the directory, and is
\* followed by the sleep of line 104; the other replies return None at
\* lines 108 and 112.
FetchFromNetwork ==
  /\ Len(fetch_log) < MaxFetches
  /\ \E pmid \in Pmids, reply \in AbstractReplies, writable \in BOOLEAN :
       /\ ~Cached(abstract_cache, pmid)
       /\ load_from_cache(pmid) = NoAbstract
       /\ IF Usable(reply)
          THEN /\ abstract_cache' =
                    CachePut(abstract_cache, pmid,
                             AbstractData(pmid, Strip(reply.body)))
               /\ cache_dir' =
                    IF writable
                    THEN CachePut(cache_dir, get_cache_file(pmid),
                                  AbstractData(pmid, Strip(reply.body)))
                    ELSE cache_dir
               /\ fetch_log' =
                    Append(fetch_log,
                           Fetched(pmid, <<"memory", "file", "network", "delay">>,
                                   AbstractData(pmid, Strip(reply.body))))
          ELSE /\ writable
               /\ fetch_log' =
                    Append(fetch_log,
                           Fetched(pmid, <<"memory", "file", "network">>,
                                   NoAbstract))
               /\ UNCHANGED <<abstract_cache, cache_dir>>
  /\ UNCHANGED <<matchVars, batchVars, mcpVars, textVars, relevanceVars,
                 identifierVars, raceVars, copyVars>>

NextFetcher ==
  \/ FetchFromMemory
  \/ FetchFromFile
  \/ FetchFromNetwork

SpecFetcher == InitFetcher /\ [][NextFetcher]_vars

\* --------------------------------------------- claims on the PMIDFetcher

\* The positions of a step in the steps of a call.
StepsAt(call, step) == {k \in 1..Len(call.steps) : call.steps[k] = step}

\* C26: every call consults the memory cache first, then the file cache and
\* only then the network; a call that made the request applied the delay
\* once, after the request, whether the request gave a result or not; a call
\* answered by a cache applied no delay.
C26_DelayAfterEveryRequest ==
  \A i \in 1..Len(fetch_log) :
    LET call == fetch_log[i]
    IN  /\ call.steps[1] = "memory"
        /\ \A k \in StepsAt(call, "file") : k = 2
        /\ \A k \in StepsAt(call, "network") : k = 3
        /\ StepsAt(call, "network") # {}
             => StepsAt(call, "delay") = {4}
        /\ StepsAt(call, "network") = {}
             => StepsAt(call, "delay") = {}

\* ------------------------------------------ the two copies of the matcher

\* A sentence of 10 characters that normalization shortens to 8; Jaccard 3/4
\* with QuoteFour.
\*   "dd  cc  bb. "
SentWide ==
  <<"d", "d", " ", " ", "c", "c", " ", " ", "b", "b", ".", " ">>

\* Every document of at most this many sentences is an input of both copies.
MaxCopySentences == 2

CopyDocuments ==
  {Concat(ps) : ps \in UNION {[1..n -> SentencePool \cup {SentWide}] :
                                n \in 0..MaxCopySentences}}

InitCopies ==
  /\ quotation \in Quotations
  /\ document \in CopyDocuments
  /\ threshold \in Thresholds
  /\ match = NoMatch
  /\ validator_match = NotMatched
  /\ BatchIdle
  /\ McpIdle
  /\ TextIdle
  /\ RelevanceIdle
  /\ IdentifierIdle
  /\ RaceIdle
  /\ FetcherIdle

\* One call of AnnotationValidator.find_text_in_content with the threshold
\* given.
ValidatorFindTextInContent ==
  /\ ~validator_match.called
  /\ validator_match' =
       [called |-> TRUE,
        found |-> validator_find_text_in_content(quotation, document, threshold)[1],
        score |-> validator_find_text_in_content(quotation, document, threshold)[2]]
  /\ UNCHANGED matchVars
  /\ UNCHANGED <<batchVars, mcpVars, textVars, relevanceVars, identifierVars,
                 raceVars, fetchVars>>

NextCopies ==
  \/ FindTextInContent
  \/ ValidatorFindTextInContent

SpecCopies == InitCopies /\ [][NextCopies]_vars

\* C27: for every quotation, document and threshold given, the copy of
\* validator.py returns the found flag and the score that the copy of cli.py
\* returns.
C27_CopiesAgree ==
  (Called /\ validator_match.called)
    => /\ validator_match.found = match.found
       /\ RatEQ(validator_match.score, match.score)

\* ----------------------- claims on the tool validate_annotation_file

\* The supporting-text entries of the file, as <<section, annotation, entry>>,
\* that have a text and a "PMID:" or "http" reference and for which the
\* handler fetched a content.
FetchedEntries ==
  {f \in {<<locals.fetches[k].section, locals.fetches[k].annotation,
            locals.fetches[k].entry>> : k \in 1..Len(locals.fetches)} :
     LET entry == arguments.annotation_data[f[1]][f[2]].supporting_text[f[3]]
     IN  /\ entry.text # <<>>
         /\ HasPrefix(entry.reference, <<"P", "M", "I", "D", ":">>)
              \/ HasPrefix(entry.reference, <<"h", "t", "t", "p">>)
         /\ \E k \in 1..Len(locals.fetches) :
              /\ locals.fetches[k].section = f[1]
              /\ locals.fetches[k].annotation = f[2]
              /\ locals.fetches[k].entry = f[3]
              /\ locals.fetches[k].content # NoContent}

\* The total the response reports for a section: 0 without a summary.
ReportedTotal(section_name) ==
  LET at == {k \in 1..Len(response.details) :
               response.details[k].section = section_name}
  IN  IF at = {} THEN 0 ELSE response.details[CHOOSE k \in at : TRUE].total

\* C28: in the response of the tool, every section, the HPO sections as well
\* as relevant_publications, reports one result for each of its entries with
\* a text, a supported reference and a fetched content, and the overall
\* total is their number.
C28_EveryEntryCounted ==
  (tool = FileTool /\ response.kind = "response")
    => /\ \A s \in 1..Len(ToolSections) :
            ReportedTotal(ToolSections[s]) =
              Cardinality({f \in FetchedEntries : f[1] = ToolSections[s]})
       /\ response.total = Cardinality(FetchedEntries)

\* ------------------------------------- claims on the ContentFetcher

\* The validations of the run for which fetch_content was called.
FetchCalls == {i \in 1..Len(calls) : calls[i].fetcher}

\* fetch_content returned a text for the i-th validation, not None.
ReturnedBody(i) == calls[i].content # NoContent

\* The later validations with the reference of the i-th, up to the first
\* for which fetch_content returned a text.
LaterFailing(i) ==
  {j \in FetchCalls :
     /\ j > i
     /\ results[j].reference = results[i].reference
     /\ \A k \in FetchCalls :
          (i < k /\ k < j /\ results[k].reference = results[i].reference)
            => ~ReturnedBody(k)}

\* C29: once fetch_content has returned a text for a reference, every later
\* call for that reference returns the same text without asking the external
\* source; a call that returned None leaves the cache as it was, and the
\* next call for the reference asks the external source again.
C29_MemoizesSuccessesOnly ==
  \A i \in FetchCalls :
    IF ReturnedBody(i)
    THEN \A j \in FetchCalls :
           (j > i /\ results[j].reference = results[i].reference)
             => /\ calls[j].source = "none"
                /\ calls[j].content = calls[i].content
                /\ calls[j].cache_after = calls[j].cache_before
    ELSE /\ calls[i].cache_after = calls[i].cache_before
         /\ \A j \in LaterFailing(i) : calls[j].source # "none"

\* A request for a PMID raised or returned nothing, the next validation with
\* the same PMID asked again, got a text, and the cache holds it.
C29_Witness ==
  /\ Len(calls) = 2
  /\ results[1].reference = RefPmid
  /\ results[2].reference = RefPmid
  /\ calls[1].source = "pmid"
  /\ ~ReturnedBody(1)
  /\ calls[1].cache_after = {}
  /\ calls[2].source = "pmid"
  /\ ReturnedBody(2)
  /\ Cached(cache, RefPmid)

\* ------------------------------------- a quotation of whitespace only

\* The quotation is not empty and holds whitespace only.
BlankQuotation ==
  quotation # <<>> /\ \A k \in 1..Len(quotation) : quotation[k] \in Whitespace

\* C30: a quotation that is not empty and holds whitespace only passes the
\* test of validate_annotation_file that skips entries, normalizes to the
\* empty text, and is reported found with score 1.0 and without suggestions
\* against every document, the empty one included.
C30_BlankQuotationFound ==
  (Called /\ BlankQuotation)
    => /\ HasTextAndReference([text |-> quotation, reference |-> RefPmid])
       /\ normalize_text(quotation) = <<>>
       /\ match.found
       /\ match.score = One
       /\ match.suggestions = <<>>

\* The blank quotation was looked for in the empty document.
C30_Witness ==
  /\ Called
  /\ BlankQuotation
  /\ document = <<>>
  /\ match.found

====
